---- MODULE Spec2Model ----
(***************************************************************************)
(* A model of the norostat versioned diff store                            *)
(* (src/src/acquisition/norostat/norostat_sql.py): the raw data-table      *)
(* version list, the three string pools, the diff table, and the point     *)
(* projection built from it.                                               *)
(*                                                                         *)
(* Spec        : whole calls of record_long_raw, one after the other (each *)
(*               call is one action, from start_transaction to close).     *)
(* SpecFaults  : the same, where a statement of a call may fail.           *)
(* SpecInOrder : the same as Spec, versions arriving in increasing order.  *)
(* SpecPoint   : whole calls of record_long_raw and update_point.          *)
(* SpecTx      : two connections running record_long_raw statement by      *)
(*               statement inside their transactions.                      *)
(* SpecEmptyValue  : Spec, with data frames that hold the empty string.    *)
(* SpecPointFaults, SpecPointNonInt, SpecPointEmptyValue, SpecTxPoint:     *)
(*               further combinations of the calls above.                  *)
(* SpecChains  : the previous/next temporary tables, filled from any       *)
(*               content of the diff table.                                *)
(* SpecPrinter : the response stream of a printer of the server            *)
(*               (src/src/server/_printer.py), chunk by chunk.             *)
(* SpecCSV     : two CSV printers of the server streaming in two threads.  *)
(* SpecAdmin   : the requests to the admin pages                           *)
(*               (src/src/server/admin/__init__.py).                       *)
(* SpecChs     : calls of CovidHospSomething.add_column                    *)
(*               (src/src/common/covid_hosp/covid_hosp_schema_io.py).      *)
(***************************************************************************)
EXTENDS Integers, Sequences, FiniteSets, TLC

VARIABLES db, recorded, last, tx, calls, printer, csv, admin, chs

vars == <<db, recorded, last, tx, calls, printer, csv, admin, chs>>

(***************************************************************************)
(* Bounds and input domains.                                               *)
(***************************************************************************)
\* The number of versions the version list may hold before calls stop.
MaxVersions == 3

\* The same, for the runs that interleave update_point (SpecPoint).
MaxPointVersions == 2

\* The number of record_long_raw calls the two connections of SpecTx start.
MaxCalls == 2

\* The number of rows a row generator of SpecPrinter produces at most, and
\* the greatest _max_results of a printer.
MaxRows == 3

MaxResults == 2

\* The number of rows each of the two CSV printers of SpecCSV streams at most.
MaxCSVRows == 2

\* The number of users the admin pages of SpecAdmin register at most.
MaxUsers == 2

\* The number of columns the calls of add_column of SpecChs add at most.
MaxAddedColumns == 2

ReleaseDates == {1, 2}
ParseTimes == {1, 2}
AllVersions == ReleaseDates \X ParseTimes

\* "2012-13" is a season column, "note" is a column that is not.
MeasurementTypes == {"2012-13", "note"}
Locations == {"states A"}
Weeks == {"wk1"}
Values == {"5", "7"}

\* A nullable column holds NULL or Some(x); no value equals NULL.
NULL == <<>>

Some(x) == <<x>>

Connections == {1, 2}

(***************************************************************************)
(* Versions: lexicographic row comparison of (release_date, parse_time).   *)
(***************************************************************************)
VersionLT(a, b) == a[1] < b[1] \/ (a[1] = b[1] /\ a[2] < b[2])

VersionLE(a, b) == a[1] < b[1] \/ (a[1] = b[1] /\ a[2] <= b[2])

(***************************************************************************)
(* Inputs: long_raw = (long_raw_df, release_date, parse_time, location).   *)
(* A data frame is a set of (week, measurement_type, value) rows with at   *)
(* most one row per (week, measurement_type).                              *)
(***************************************************************************)
DataFrameRows == [week : Weeks, measurement_type : MeasurementTypes, value : Values]

DataFrames ==
  { df \in SUBSET DataFrameRows :
      \A r1, r2 \in df :
        (r1.week = r2.week /\ r1.measurement_type = r2.measurement_type) => r1 = r2 }

LongRaws ==
  [long_raw_df : DataFrames, release_date : ReleaseDates,
   parse_time : ParseTimes, location : Locations]

VersionOf(long_raw) == <<long_raw.release_date, long_raw.parse_time>>

\* The temporary table `norostat_raw_datatable_parsed`.
norostat_raw_datatable_parsed(long_raw) ==
  { [measurement_type |-> r.measurement_type, location |-> long_raw.location,
     week |-> r.week, value |-> r.value] : r \in long_raw.long_raw_df }

(***************************************************************************)
(* String pools: AUTO_INCREMENT ids 1, 2, ... ; pool[id] is the string.    *)
(***************************************************************************)
Range(s) == { s[i] : i \in DOMAIN s }

IdOf(pool, str) == CHOOSE i \in DOMAIN pool : pool[i] = str

\* All ways to append the strings of `new` to `pool` (the order in which
\* INSERT ... SELECT DISTINCT delivers them is not fixed by the statement).
RECURSIVE Appendings(_, _)
Appendings(pool, new) ==
  IF new = {} THEN {pool}
  ELSE UNION { Appendings(Append(pool, s), new \ {s}) : s \in new }

\* A variant without the NOT IN filter: every string gets a new id.
PoolInsert_All(pool, strings) == Appendings(pool, strings)

\* INSERT INTO `<var>_pool` ... WHERE `<var>` NOT IN (SELECT ... FROM `<var>_pool`)
PoolInsert(pool, strings) == Appendings(pool, strings \ Range(pool))

(***************************************************************************)
(* The database. Rows of `norostat_raw_datatable_diffs` are records        *)
(* [release_date, parse_time, measurement_type_id, location_id, week_id,   *)
(*  new_value]; `tables` holds the point tables created so far.            *)
(***************************************************************************)
EmptyDb ==
  [version_list |-> {},
   measurement_type_pool |-> <<>>,
   location_pool |-> <<>>,
   week_pool |-> <<>>,
   diffs |-> {},
   tables |-> {},
   point_version_list |-> {},
   point_diffs |-> {}]

RowVersion(r) == <<r.release_date, r.parse_time>>

SameCell(a, b) ==
  /\ a.measurement_type_id = b.measurement_type_id
  /\ a.location_id = b.location_id
  /\ a.week_id = b.week_id

CellOf(r) ==
  [measurement_type_id |-> r.measurement_type_id,
   location_id |-> r.location_id,
   week_id |-> r.week_id]

\* A variant that keeps every non-NULL row at or before the version, not only
\* the latest of its cell.
norostat_raw_datatable_previous_AnyEarlier(diffs, release_date, parse_time) ==
  { [measurement_type_id |-> latest.measurement_type_id,
     location_id |-> latest.location_id,
     week_id |-> latest.week_id,
     value |-> latest.new_value[1]] :
       latest \in { l \in diffs :
                      /\ VersionLE(RowVersion(l), <<release_date, parse_time>>)
                      /\ l.new_value # NULL } }

\* A variant without the version bound: per cell the latest diff row of all.
norostat_raw_datatable_previous_Latest(diffs, release_date, parse_time) ==
  LET kept == { latest \in diffs :
                  /\ ~ \E l \in diffs :
                         SameCell(latest, l) /\ VersionLT(RowVersion(latest), RowVersion(l))
                  /\ latest.new_value # NULL }
  IN { [measurement_type_id |-> latest.measurement_type_id,
        location_id |-> latest.location_id,
        week_id |-> latest.week_id,
        value |-> latest.new_value[1]] : latest \in kept }

\* INSERT INTO `norostat_raw_datatable_previous` ... : per cell the diff row
\* at or before (release_date, parse_time) that has no later row at or before
\* it, kept when its new_value is not NULL.
norostat_raw_datatable_previous(diffs, release_date, parse_time) ==
  LET later == { d \in diffs : VersionLE(RowVersion(d), <<release_date, parse_time>>) }
      kept == { latest \in diffs :
                  /\ VersionLE(RowVersion(latest), <<release_date, parse_time>>)
                  /\ ~ \E l \in later :
                         SameCell(latest, l) /\ VersionLT(RowVersion(latest), RowVersion(l))
                  /\ latest.new_value # NULL }
  IN { [measurement_type_id |-> latest.measurement_type_id,
        location_id |-> latest.location_id,
        week_id |-> latest.week_id,
        value |-> latest.new_value[1]] : latest \in kept }

\* A variant with the order reversed (ORDER BY ... DESC): the greatest of the
\* later versions.
next_version_if_any_Greatest(version_list, release_date, parse_time) ==
  { n \in version_list :
      /\ VersionLT(<<release_date, parse_time>>, n)
      /\ \A m \in version_list : VersionLE(m, n) }

\* SELECT ... FROM `norostat_raw_datatable_version_list`
\* WHERE (release_date, parse_time) > (%s,%s) ORDER BY ... LIMIT 1
next_version_if_any(version_list, release_date, parse_time) ==
  { n \in version_list :
      /\ VersionLT(<<release_date, parse_time>>, n)
      /\ \A m \in version_list :
           VersionLT(<<release_date, parse_time>>, m) => VersionLE(n, m) }

\* A variant that reads the table strictly before the next version.
norostat_raw_datatable_next_Strict(diffs, next_version) ==
  LET later == { d \in diffs : VersionLT(RowVersion(d), next_version) }
      kept == { latest \in diffs :
                  /\ VersionLT(RowVersion(latest), next_version)
                  /\ ~ \E l \in later :
                         SameCell(latest, l) /\ VersionLT(RowVersion(latest), RowVersion(l))
                  /\ latest.new_value # NULL }
  IN { [measurement_type_id |-> latest.measurement_type_id,
        location_id |-> latest.location_id,
        week_id |-> latest.week_id,
        value |-> latest.new_value[1]] : latest \in kept }

\* A variant that takes the latest non-NULL row of each cell, so that a value
\* resurfaces after its tombstone.
norostat_raw_datatable_next_SkipTombstones(diffs, next_version) ==
  LET later == { d \in diffs : VersionLE(RowVersion(d), next_version) /\ d.new_value # NULL }
      kept == { latest \in later :
                  ~ \E l \in later :
                      SameCell(latest, l) /\ VersionLT(RowVersion(latest), RowVersion(l)) }
  IN { [measurement_type_id |-> latest.measurement_type_id,
        location_id |-> latest.location_id,
        week_id |-> latest.week_id,
        value |-> latest.new_value[1]] : latest \in kept }

\* INSERT INTO `norostat_raw_datatable_next` ... : the same query as for
\* `norostat_raw_datatable_previous`, as of the next version.
norostat_raw_datatable_next(diffs, next_version) ==
  LET later == { d \in diffs : VersionLE(RowVersion(d), next_version) }
      kept == { latest \in diffs :
                  /\ VersionLE(RowVersion(latest), next_version)
                  /\ ~ \E l \in later :
                         SameCell(latest, l) /\ VersionLT(RowVersion(latest), RowVersion(l))
                  /\ latest.new_value # NULL }
  IN { [measurement_type_id |-> latest.measurement_type_id,
        location_id |-> latest.location_id,
        week_id |-> latest.week_id,
        value |-> latest.new_value[1]] : latest \in kept }

\* `norostat_raw_datatable_parsed` LEFT JOIN the three pools USING the string.
ParsedJoinPools(parsed, d) ==
  { [measurement_type_id |-> IdOf(d.measurement_type_pool, p.measurement_type),
     location_id |-> IdOf(d.location_pool, p.location),
     week_id |-> IdOf(d.week_pool, p.week),
     value |-> p.value] : p \in parsed }

DiffRow(version, cell, new_value) ==
  [release_date |-> version[1], parse_time |-> version[2],
   measurement_type_id |-> cell.measurement_type_id,
   location_id |-> cell.location_id,
   week_id |-> cell.week_id,
   new_value |-> new_value]

\* The PRIMARY KEY of the diff table.
DiffKey(r) == <<r.release_date, r.parse_time, r.measurement_type_id, r.location_id, r.week_id>>

PrimaryKeyHolds(rows) == \A a, b \in rows : DiffKey(a) = DiffKey(b) => a = b

\* A variant that records every parsed row, changed or not.
ForwardValueRows_All(parsed_ids, previous, version) ==
  { DiffRow(version, CellOf(p), Some(p.value)) : p \in parsed_ids }

\* Record diff, additions/updates: parsed rows whose (ids, value) is NOT IN previous.
ForwardValueRows(parsed_ids, previous, version) ==
  { DiffRow(version, CellOf(p), Some(p.value)) :
      p \in { q \in parsed_ids : q \notin previous } }

\* A variant that records no deletion.
ForwardTombstoneRows_None(parsed_ids, previous, version) == {}

\* Record diff, deletions: previous rows whose ids are NOT IN the parsed rows.
ForwardTombstoneRows(parsed_ids, previous, version) ==
  { DiffRow(version, CellOf(p), NULL) :
      p \in { q \in previous : ~ \E x \in parsed_ids : SameCell(q, x) } }

\* A variant that re-records every row of the next version.
RepairValueRows_All(parsed_ids, next, next_version) ==
  { DiffRow(next_version, CellOf(p), Some(p.value)) : p \in next }

\* Next-version repair, additions/updates: next rows whose (ids, value) is
\* NOT IN the parsed rows.
RepairValueRows(parsed_ids, next, next_version) ==
  { DiffRow(next_version, CellOf(p), Some(p.value)) :
      p \in { q \in next : q \notin parsed_ids } }

\* A variant that records no deletion at the next version.
RepairTombstoneRows_None(parsed_ids, next, next_version) == {}

\* Next-version repair, deletions: parsed rows whose ids are NOT IN next.
RepairTombstoneRows(parsed_ids, next, next_version) ==
  { DiffRow(next_version, CellOf(p), NULL) :
      p \in { q \in parsed_ids : ~ \E x \in next : SameCell(q, x) } }

\* A variant without the DELETE: the rows of the next version stay.
DeleteDiffsAt_Nothing(diffs, version) == diffs

\* A variant that deletes the rows of every version from `version` on.
DeleteDiffsAt_From(diffs, version) == { d \in diffs : VersionLT(RowVersion(d), version) }

\* DELETE FROM `norostat_raw_datatable_diffs` WHERE release_date=%s AND parse_time=%s
DeleteDiffsAt(diffs, version) == { d \in diffs : RowVersion(d) # version }

(***************************************************************************)
(* record_long_raw, statement by statement, on the connection's view `w`   *)
(* of the database.                                                        *)
(***************************************************************************)
\* A variant that leaves the version list as it is.
RegisterVersion_Skip(w, version) == w

\* Register new version in version list (raises IntegrityError when present).
RegisterVersion(w, version) == [w EXCEPT !.version_list = @ \cup {version}]

InsertMeasurementTypePool(w, parsed) ==
  { [w EXCEPT !.measurement_type_pool = pool] :
      pool \in PoolInsert(w.measurement_type_pool, { p.measurement_type : p \in parsed }) }

InsertLocationPool(w, parsed) ==
  { [w EXCEPT !.location_pool = pool] :
      pool \in PoolInsert(w.location_pool, { p.location : p \in parsed }) }

InsertWeekPool(w, parsed) ==
  { [w EXCEPT !.week_pool = pool] :
      pool \in PoolInsert(w.week_pool, { p.week : p \in parsed }) }

\* The rows the two "Record diff" INSERTs add at the new version.
RecordDiffRows(w, parsed, previous, version) ==
  ForwardValueRows(ParsedJoinPools(parsed, w), previous, version)
    \cup ForwardTombstoneRows(ParsedJoinPools(parsed, w), previous, version)

\* The rows the two repair INSERTs add at the next version.
RepairRows(w, parsed, next, next_version) ==
  RepairValueRows(ParsedJoinPools(parsed, w), next, next_version)
    \cup RepairTombstoneRows(ParsedJoinPools(parsed, w), next, next_version)

\* An INSERT of `rows` into `diffs` raises IntegrityError on a duplicate key.
InsertRaises(diffs, rows) ==
  \/ ~ PrimaryKeyHolds(rows)
  \/ \E r \in rows, e \in diffs : DiffKey(r) = DiffKey(e)

InsertDiffs(w, rows) == [w EXCEPT !.diffs = @ \cup rows]

DeleteNextVersionDiffs(w, next_version) ==
  [w EXCEPT !.diffs = DeleteDiffsAt(@, next_version)]

\* CREATE TABLE IF NOT EXISTS `norostat_point_version_list` / `norostat_point_diffs`
CreatePointVersionList(w) == [w EXCEPT !.tables = @ \cup {"norostat_point_version_list"}]

CreatePointDiffs(w) == [w EXCEPT !.tables = @ \cup {"norostat_point_diffs"}]

\* The statements from the version registration to the next-version repair,
\* for one choice of pool contents: [raised, work].
DiffAndRepair(w, parsed, previous, next_version, next, version) ==
  LET rows == RecordDiffRows(w, parsed, previous, version)
      w1 == InsertDiffs(w, rows)
  IN IF InsertRaises(w.diffs, rows) THEN [raised |-> TRUE, work |-> w]
     ELSE IF next_version = {} THEN [raised |-> FALSE, work |-> w1]
     ELSE LET n == CHOOSE x \in next_version : TRUE
              w2 == DeleteNextVersionDiffs(w1, n)
              repair == RepairRows(w2, parsed, next, n)
          IN IF InsertRaises(w2.diffs, repair) THEN [raised |-> TRUE, work |-> w]
             ELSE [raised |-> FALSE, work |-> InsertDiffs(w2, repair)]

\* A variant without the key: a repeated version is accepted.
VersionInsertRaises_Never(version_list, version) == FALSE

\* PRIMARY KEY (release_date, parse_time) of the version list: the INSERT of
\* a version that is already there raises IntegrityError.
VersionInsertRaises(version_list, version) == version \in version_list

\* Where a call can be cut short by a statement that fails for a reason of
\* its own (a lost connection, a refused statement): "statement" is any
\* statement before the CREATE TABLEs.
Faults == {"none", "statement", "create_point_version_list", "create_point_diffs", "commit"}

\* What is left of the connection's work w when the call ends with `fault`:
\* [fault, outcome, db, committed]. A CREATE TABLE statement commits the transaction
\* before it runs, so a call that fails there or later has its writes
\* committed; a call that fails before is rolled back to d by close().
EndOfCall(d, w, fault) ==
  CASE fault = "statement" ->
         [fault |-> fault, outcome |-> "error", db |-> d, committed |-> FALSE]
    [] fault = "create_point_version_list" ->
         [fault |-> fault, outcome |-> "error", db |-> w, committed |-> TRUE]
    [] fault = "create_point_diffs" ->
         [fault |-> fault, outcome |-> "error", db |-> CreatePointVersionList(w),
          committed |-> TRUE]
    [] fault = "commit" ->
         [fault |-> fault, outcome |-> "error",
          db |-> CreatePointDiffs(CreatePointVersionList(w)), committed |-> TRUE]
    [] fault = "none" ->
         [fault |-> fault, outcome |-> "ok",
          db |-> CreatePointDiffs(CreatePointVersionList(w)), committed |-> TRUE]

\* Every result [fault, outcome, db, committed] of record_long_raw(long_raw)
\* on database d: `fault` is where a statement failed for a reason of its
\* own, "none" when the call ran as written.
record_long_raw_results(d, long_raw) ==
  LET version == VersionOf(long_raw)
      parsed == norostat_raw_datatable_parsed(long_raw)
      previous == norostat_raw_datatable_previous(d.diffs, version[1], version[2])
      next_version == next_version_if_any(d.version_list, version[1], version[2])
      next == IF next_version = {} THEN {}
              ELSE norostat_raw_datatable_next(d.diffs, CHOOSE x \in next_version : TRUE)
      rolled_back(f, o) == [fault |-> f, outcome |-> o, db |-> d, committed |-> FALSE]
      pooled == UNION { UNION { InsertWeekPool(w2, parsed) :
                                  w2 \in InsertLocationPool(w1, parsed) } :
                          w1 \in InsertMeasurementTypePool(RegisterVersion(d, version), parsed) }
      ends(w) == LET r == DiffAndRepair(w, parsed, previous, next_version, next, version)
                 IN IF r.raised THEN {rolled_back("none", "IntegrityError")}
                    ELSE { EndOfCall(d, r.work, fault) : fault \in Faults }
  IN IF VersionInsertRaises(d.version_list, version)
       THEN {rolled_back("statement", "error"), rolled_back("none", "DuplicateVersion")}
       ELSE UNION { ends(w) : w \in pooled }

NoVersion == <<0, 0>>

\* One call of record_long_raw(long_raw), with a fault among `faults`.
record_long_raw(long_raw, faults) ==
  /\ VersionOf(long_raw) \in db.version_list \/ Cardinality(db.version_list) < MaxVersions
  /\ \E r \in record_long_raw_results(db, long_raw) :
       /\ r.fault \in faults
       /\ db' = r.db
       /\ last' = [op |-> "record_long_raw",
                   version |-> IF r.outcome = "ok" THEN VersionOf(long_raw) ELSE NoVersion,
                   outcome |-> r.outcome]
       /\ recorded' = IF r.committed
                        THEN (VersionOf(long_raw) :> norostat_raw_datatable_parsed(long_raw))
                               @@ recorded
                        ELSE recorded
  /\ UNCHANGED <<tx, calls, printer, csv, admin, chs>>

(***************************************************************************)
(* update_point: project the raw diffs of the versions that are not yet in *)
(* `norostat_point_version_list`.                                          *)
(***************************************************************************)
\* re.compile(r"[0-9]+-[0-9]+$").match(measurement_type), on MeasurementTypes.
prog_match(measurement_type) == measurement_type \in {"2012-13"}

\* int(new_value_str) on Values: the strings it converts, and the result.
IntStrings == {"5", "7"}

int(new_value_str) == CASE new_value_str = "5" -> 5 [] new_value_str = "7" -> 7

\* season_db_to_epiweek(measurement_type, week): the epiweek of a week of a
\* season; distinct weeks of a season have distinct epiweeks.
season_db_to_epiweek(measurement_type, week) ==
  CASE measurement_type = "2012-13" /\ week = "wk1" -> 201231
    [] OTHER -> 0

\* A variant of the selection without the NOT IN condition: every raw diff.
raw_datatable_diff_selection_All(d) ==
  { [release_date |-> r.release_date, parse_time |-> r.parse_time,
     measurement_type |-> d.measurement_type_pool[r.measurement_type_id],
     location_id |-> r.location_id,
     week |-> d.week_pool[r.week_id],
     new_value |-> r.new_value] : r \in d.diffs }

\* SELECT ... FROM `norostat_raw_datatable_diffs` LEFT JOIN pools
\* WHERE (release_date, parse_time) NOT IN (SELECT ... FROM `norostat_point_version_list`)
raw_datatable_diff_selection(d) ==
  { [release_date |-> r.release_date, parse_time |-> r.parse_time,
     measurement_type |-> d.measurement_type_pool[r.measurement_type_id],
     location_id |-> r.location_id,
     week |-> d.week_pool[r.week_id],
     new_value |-> r.new_value] :
      r \in { x \in d.diffs : RowVersion(x) \notin d.point_version_list } }

\* A variant of the filter without the season pattern.
PointFilter_AnyColumn(selection) ==
  { r \in selection : r.new_value # Some("") }

\* The rows of the selection that pass the filter of point_diff_insertion.
PointFilter(selection) ==
  { r \in selection : prog_match(r.measurement_type) /\ r.new_value # Some("") }

PointRow(r) ==
  [release_date |-> r.release_date, parse_time |-> r.parse_time,
   location_id |-> r.location_id,
   epiweek |-> season_db_to_epiweek(r.measurement_type, r.week),
   new_value |-> IF r.new_value = NULL THEN NULL ELSE Some(int(r.new_value[1]))]

PointKey(r) == <<r.release_date, r.parse_time, r.location_id, r.epiweek>>

UpdatePointFaults == {"none", "statement"}

\* A variant that inserts no version.
PointVersionListInsertion_None(d) == d

\* INSERT INTO `norostat_point_version_list` SELECT DISTINCT ... FROM
\* `norostat_raw_datatable_version_list` WHERE ... NOT IN (point version list)
PointVersionListInsertion(d) ==
  [d EXCEPT !.point_version_list = @ \cup (d.version_list \ d.point_version_list)]

\* A variant of close() that commits what the call has written.
UpdatePointClose_Commits(d, w) == w

\* cnx.close() on a call that has not committed: the database stays as it
\* was at start_transaction, whatever the call has written (w).
UpdatePointClose(d, w) == d

\* Every result [outcome, db] of update_point() on database d.
update_point_results(d, fault) ==
  LET filtered == PointFilter(raw_datatable_diff_selection(d))
      listed == PointVersionListInsertion(d)
      rolled_back(w) == [outcome |-> "error", db |-> UpdatePointClose(d, w)]
  IN IF "norostat_point_version_list" \notin d.tables THEN rolled_back(d)
     ELSE IF \E r \in filtered : r.new_value # NULL /\ r.new_value[1] \notin IntStrings
       THEN rolled_back(d)
     ELSE IF fault = "statement" THEN rolled_back(listed)
     ELSE IF filtered # {} /\ "norostat_point_diffs" \notin d.tables THEN rolled_back(listed)
     ELSE IF \/ \E a, b \in filtered : a # b /\ PointKey(PointRow(a)) = PointKey(PointRow(b))
             \/ \E a \in filtered, e \in d.point_diffs : PointKey(PointRow(a)) = PointKey(e)
       THEN rolled_back(listed)
     ELSE [outcome |-> "ok",
           db |-> [listed EXCEPT !.point_diffs = @ \cup { PointRow(r) : r \in filtered }]]

update_point ==
  /\ \E fault \in UpdatePointFaults :
       LET r == update_point_results(db, fault)
       IN /\ db' = r.db
          /\ last' = [op |-> "update_point", version |-> NoVersion, outcome |-> r.outcome]
  /\ UNCHANGED <<recorded, tx, calls, printer, csv, admin, chs>>

(***************************************************************************)
(* Spec: whole calls of record_long_raw, one after the other, every        *)
(* statement doing what it is written to do.                               *)
(***************************************************************************)
\* The printer of the server, of which the runs of the store make no use.
IdlePrinter == [pc |-> "none"]

IdleTx ==
  [pc |-> "idle", outcome |-> "none", call |-> 0, concurrent |-> FALSE,
   previous |-> {}, next_version |-> {}, next |-> {},
   work |-> EmptyDb, slocks |-> {}, xlocks |-> {}, missing |-> {}, pending |-> {},
   raised_at |-> "none", selection |-> {}]

Init ==
  /\ db = EmptyDb
  /\ recorded = <<>>
  /\ last = [op |-> "none", version |-> NoVersion, outcome |-> "none"]
  /\ tx = [c \in Connections |-> IdleTx]
  /\ calls = <<>>
  /\ printer = IdlePrinter
  /\ csv = [pc |-> "none"]
  /\ admin = [pc |-> "none"]
  /\ chs = [pc |-> "none"]

Next == \E long_raw \in LongRaws : record_long_raw(long_raw, {"none"})

Spec == Init /\ [][Next]_vars

(***************************************************************************)
(* SpecFaults: the same calls, each of which may be cut short by a         *)
(* statement that fails.                                                   *)
(***************************************************************************)
NextFaults == \E long_raw \in LongRaws : record_long_raw(long_raw, Faults)

SpecFaults == Init /\ [][NextFaults]_vars

(***************************************************************************)
(* SpecPoint: whole calls of record_long_raw and update_point in any       *)
(* order.                                                                  *)
(***************************************************************************)
NextPoint ==
  \/ \E long_raw \in LongRaws :
       /\ VersionOf(long_raw) \in db.version_list
            \/ Cardinality(db.version_list) < MaxPointVersions
       /\ record_long_raw(long_raw, {"none"})
  \/ update_point

SpecPoint == Init /\ [][NextPoint]_vars

(***************************************************************************)
(* SpecPointFaults: the calls of SpecPoint, where a statement of a         *)
(* record_long_raw call may fail.                                          *)
(***************************************************************************)
NextPointFaults ==
  \/ \E long_raw \in LongRaws :
       /\ VersionOf(long_raw) \in db.version_list
            \/ Cardinality(db.version_list) < MaxPointVersions
       /\ record_long_raw(long_raw, Faults)
  \/ update_point

SpecPointFaults == Init /\ [][NextPointFaults]_vars

(***************************************************************************)
(* SpecPointNonInt: the calls of SpecPoint on data frames in which a value *)
(* may be a string that int() does not convert.                            *)
(***************************************************************************)
NonIntDataFrames ==
  { df \in SUBSET [week : Weeks, measurement_type : MeasurementTypes, value : {"5", "n/a"}] :
      \A r1, r2 \in df :
        (r1.week = r2.week /\ r1.measurement_type = r2.measurement_type) => r1 = r2 }

NonIntLongRaws ==
  [long_raw_df : NonIntDataFrames, release_date : ReleaseDates,
   parse_time : ParseTimes, location : Locations]

NextPointNonInt ==
  \/ \E long_raw \in NonIntLongRaws :
       /\ VersionOf(long_raw) \in db.version_list
            \/ Cardinality(db.version_list) < MaxPointVersions
       /\ record_long_raw(long_raw, {"none"})
  \/ update_point

SpecPointNonInt == Init /\ [][NextPointNonInt]_vars

(***************************************************************************)
(* SpecInOrder: whole calls of record_long_raw in strictly increasing      *)
(* version order.                                                          *)
(***************************************************************************)
NextInOrder ==
  \E long_raw \in LongRaws :
    /\ \A v \in db.version_list : VersionLT(v, VersionOf(long_raw))
    /\ record_long_raw(long_raw, {"none"})

SpecInOrder == Init /\ [][NextInOrder]_vars

(***************************************************************************)
(* SpecEmptyValue: whole calls of record_long_raw on data frames in which  *)
(* the value of a row may be the empty string.                             *)
(***************************************************************************)
EmptyValueDataFrames ==
  { df \in SUBSET [week : Weeks, measurement_type : MeasurementTypes, value : {"5", ""}] :
      \A r1, r2 \in df :
        (r1.week = r2.week /\ r1.measurement_type = r2.measurement_type) => r1 = r2 }

EmptyValueLongRaws ==
  [long_raw_df : EmptyValueDataFrames, release_date : ReleaseDates,
   parse_time : ParseTimes, location : Locations]

NextEmptyValue == \E long_raw \in EmptyValueLongRaws : record_long_raw(long_raw, {"none"})

SpecEmptyValue == Init /\ [][NextEmptyValue]_vars

(***************************************************************************)
(* SpecPointEmptyValue: record_long_raw on data frames in which a value    *)
(* may be the empty string, and update_point, in any order.                *)
(***************************************************************************)
NextPointEmptyValue ==
  \/ \E long_raw \in EmptyValueLongRaws :
       /\ VersionOf(long_raw) \notin db.version_list
       /\ Cardinality(db.version_list) < MaxVersions
       /\ record_long_raw(long_raw, {"none"})
  \/ update_point

SpecPointEmptyValue == Init /\ [][NextPointEmptyValue]_vars

(***************************************************************************)
(* record_long_raw statement by statement, on two connections. `db` is the *)
(* committed database; tx[c].work is connection c's view of the tables it  *)
(* holds a lock on. Locks are per table: a read under SERIALIZABLE takes a  *)
(* shared lock, a write an exclusive one, both kept until the transaction   *)
(* ends. `calls` lists the calls started, each with whether its writes got  *)
(* committed.                                                              *)
(***************************************************************************)
TxDataFrames == { df \in DataFrames : \A r \in df : prog_match(r.measurement_type) }

TxLongRaws == { long_raw \in LongRaws : long_raw.long_raw_df \in TxDataFrames }

\* A variant: the isolation level a connection has when none is asked for
\* with locking reads turned off.
isolation_level_ReadCommitted == "READ COMMITTED"

\* cnx.start_transaction(isolation_level='SERIALIZABLE')
isolation_level == "SERIALIZABLE"

Other(c) == CHOOSE o \in Connections : o # c

Active(c) == tx[c].pc \notin {"idle", "done"}

LongRawOf(c) == calls[tx[c].call].long_raw

ParsedOf(c) == norostat_raw_datatable_parsed(LongRawOf(c))

Holds(c, table) == table \in tx[c].slocks \cup tx[c].xlocks

\* A variant: a read that does not wait for the other connection's lock.
CanRead_NonLocking(c, table) == TRUE

CanRead(c, table) == table \notin tx[Other(c)].xlocks

CanWrite(c, table) == table \notin tx[Other(c)].slocks \cup tx[Other(c)].xlocks

\* What connection c reads in `table`: its own view once it holds a lock on
\* the table, the committed table otherwise.
View(c, table) ==
  IF Holds(c, table) THEN tx[c].work
  ELSE CASE table = "version_list" -> [tx[c].work EXCEPT !.version_list = db.version_list]
         [] table = "diffs" -> [tx[c].work EXCEPT !.diffs = db.diffs]
         [] table = "measurement_type_pool" ->
              [tx[c].work EXCEPT !.measurement_type_pool = db.measurement_type_pool]
         [] table = "location_pool" -> [tx[c].work EXCEPT !.location_pool = db.location_pool]
         [] table = "week_pool" -> [tx[c].work EXCEPT !.week_pool = db.week_pool]

SharedLocks(c, table) ==
  IF isolation_level = "SERIALIZABLE" THEN tx[c].slocks \cup {table} ELSE tx[c].slocks

\* The committed database once connection c's exclusive-locked tables are
\* written back.
Committed(c) ==
  [db EXCEPT
     !.version_list = IF "version_list" \in tx[c].xlocks THEN tx[c].work.version_list ELSE @,
     !.diffs = IF "diffs" \in tx[c].xlocks THEN tx[c].work.diffs ELSE @,
     !.measurement_type_pool =
        IF "measurement_type_pool" \in tx[c].xlocks THEN tx[c].work.measurement_type_pool ELSE @,
     !.location_pool = IF "location_pool" \in tx[c].xlocks THEN tx[c].work.location_pool ELSE @,
     !.week_pool = IF "week_pool" \in tx[c].xlocks THEN tx[c].work.week_pool ELSE @]

\* A variant of close() on a connection that commits what it has written.
CloseWithoutCommit_Commits(c) == Committed(c)

\* The committed database after cnx.close() on connection c that has not
\* committed: the server rolls the open transaction back.
CloseWithoutCommit(c) == db

\* The connection after a raised exception: close() rolls back what is not
\* committed and releases the locks; raised_at keeps the statement that raised.
Raised(c, outcome) ==
  [tx[c] EXCEPT !.pc = "done", !.outcome = outcome, !.work = EmptyDb,
                !.slocks = {}, !.xlocks = {}, !.pending = {}, !.raised_at = tx[c].pc]

PoolTables == {"measurement_type_pool", "location_pool", "week_pool"}

\* The strings of the parsed table that go to the pool `table`.
PoolStrings(parsed, table) ==
  CASE table = "measurement_type_pool" -> { p.measurement_type : p \in parsed }
    [] table = "location_pool" -> { p.location : p \in parsed }
    [] table = "week_pool" -> { p.week : p \in parsed }

\* The strings of the parsed table that no committed pool holds.
MissingStrings(parsed) ==
  UNION { PoolStrings(parsed, table) \ Range(db[table]) : table \in PoolTables }

\* Where a connection stands between the SELECT and the INSERT of a pool
\* statement, and after it.
InsertPc(table) ==
  CASE table = "measurement_type_pool" -> "insert_measurement_type_pool"
    [] table = "location_pool" -> "insert_location_pool"
    [] table = "week_pool" -> "insert_week_pool"

NextPoolPc(table) ==
  CASE table = "measurement_type_pool" -> "location_pool"
    [] table = "location_pool" -> "week_pool"
    [] table = "week_pool" -> "diffs"

\* UNIQUE KEY of the pool's string column: the INSERT of a string that is
\* already there raises IntegrityError.
PoolInsertRaises(pool, strings) == strings \cap Range(pool) # {}

\* cnx.start_transaction(...) and the population of the parsed table.
Begin(c, long_raw) ==
  /\ ~ Active(c)
  /\ Len(calls) < MaxCalls
  /\ calls' = Append(calls, [long_raw |-> long_raw, committed |-> FALSE])
  /\ tx' = [o \in Connections |->
              IF o = c
                THEN [IdleTx EXCEPT !.pc = "previous", !.call = Len(calls) + 1,
                                    !.concurrent = Active(Other(c)),
                                    !.missing =
                                       MissingStrings(norostat_raw_datatable_parsed(long_raw))]
                ELSE [tx[o] EXCEPT !.concurrent = @ \/ Active(o)]]
  /\ UNCHANGED <<db, recorded, last, printer, csv, admin, chs>>

PopulatePrevious(c) ==
  /\ tx[c].pc = "previous"
  /\ CanRead(c, "diffs")
  /\ LET w == View(c, "diffs")
         v == VersionOf(LongRawOf(c))
     IN tx' = [tx EXCEPT ![c].work = w,
                         ![c].slocks = SharedLocks(c, "diffs"),
                         ![c].previous = norostat_raw_datatable_previous(w.diffs, v[1], v[2]),
                         ![c].pc = "next_version"]
  /\ UNCHANGED <<db, recorded, last, calls, printer, csv, admin, chs>>

FindNextVersion(c) ==
  /\ tx[c].pc = "next_version"
  /\ CanRead(c, "version_list")
  /\ LET w == View(c, "version_list")
         v == VersionOf(LongRawOf(c))
         n == next_version_if_any(w.version_list, v[1], v[2])
     IN tx' = [tx EXCEPT ![c].work = w,
                         ![c].slocks = SharedLocks(c, "version_list"),
                         ![c].next_version = n,
                         ![c].pc = IF n = {} THEN "register" ELSE "next"]
  /\ UNCHANGED <<db, recorded, last, calls, printer, csv, admin, chs>>

PopulateNext(c) ==
  /\ tx[c].pc = "next"
  /\ CanRead(c, "diffs")
  /\ LET w == View(c, "diffs")
         n == CHOOSE x \in tx[c].next_version : TRUE
     IN tx' = [tx EXCEPT ![c].work = w,
                         ![c].slocks = SharedLocks(c, "diffs"),
                         ![c].next = norostat_raw_datatable_next(w.diffs, n),
                         ![c].pc = "register"]
  /\ UNCHANGED <<db, recorded, last, calls, printer, csv, admin, chs>>

Register(c) ==
  /\ tx[c].pc = "register"
  /\ CanWrite(c, "version_list")
  /\ LET w == View(c, "version_list")
         v == VersionOf(LongRawOf(c))
     IN /\ tx' = [tx EXCEPT ![c] =
                 IF VersionInsertRaises(w.version_list, v)
                   THEN Raised(c, "DuplicateVersion")
                   ELSE [tx[c] EXCEPT !.work = RegisterVersion(w, v),
                                      !.xlocks = @ \cup {"version_list"},
                                      !.pc = "measurement_type_pool"]]
        /\ db' = IF VersionInsertRaises(w.version_list, v) THEN CloseWithoutCommit(c) ELSE db
  /\ UNCHANGED <<recorded, last, calls, printer, csv, admin, chs>>

\* The SELECT DISTINCT ... WHERE ... NOT IN (SELECT ... FROM pool) of a pool
\* INSERT: the strings of the parsed table the connection does not see in
\* the pool.
SelectPoolStep(c, table) ==
  /\ tx[c].pc = table
  /\ CanRead(c, table)
  /\ LET w == View(c, table)
     IN tx' = [tx EXCEPT ![c].work = w,
                         ![c].slocks = SharedLocks(c, table),
                         ![c].pending = PoolStrings(ParsedOf(c), table) \ Range(w[table]),
                         ![c].pc = InsertPc(table)]
  /\ UNCHANGED <<db, recorded, last, calls, printer, csv, admin, chs>>

\* The INSERT of the selected strings into the pool, each with a new id: it
\* waits for the other connection's locks on the pool and then writes to
\* the pool as committed.
InsertPoolStep(c, table) ==
  /\ tx[c].pc = InsertPc(table)
  /\ CanWrite(c, table)
  /\ IF PoolInsertRaises(db[table], tx[c].pending)
       THEN /\ tx' = [tx EXCEPT ![c] = Raised(c, "DuplicatePoolEntry")]
            /\ db' = CloseWithoutCommit(c)
       ELSE /\ \E pool \in Appendings(db[table], tx[c].pending) :
                 tx' = [tx EXCEPT ![c].work = [tx[c].work EXCEPT ![table] = pool],
                                  ![c].xlocks = @ \cup {table},
                                  ![c].pending = {},
                                  ![c].pc = NextPoolPc(table)]
            /\ db' = db
  /\ UNCHANGED <<recorded, last, calls, printer, csv, admin, chs>>

\* The three pool INSERTs, in the order of the code.
InsertPools(c) ==
  \E table \in PoolTables :
    \/ SelectPoolStep(c, table)
    \/ InsertPoolStep(c, table)

\* The two "Record diff" INSERTs and, when there is a next version, the
\* DELETE and the two INSERTs that repair it.
RecordDiffAndRepair(c) ==
  /\ tx[c].pc = "diffs"
  /\ CanWrite(c, "diffs")
  /\ LET r == DiffAndRepair(View(c, "diffs"), ParsedOf(c), tx[c].previous,
                            tx[c].next_version, tx[c].next, VersionOf(LongRawOf(c)))
     IN /\ tx' = [tx EXCEPT ![c] =
                 IF r.raised THEN Raised(c, "IntegrityError")
                 ELSE [tx[c] EXCEPT !.work = r.work,
                                    !.xlocks = @ \cup {"diffs"},
                                    !.pc = "create_point_version_list"]]
        /\ db' = IF r.raised THEN CloseWithoutCommit(c) ELSE db
  /\ UNCHANGED <<recorded, last, calls, printer, csv, admin, chs>>

\* CREATE TABLE IF NOT EXISTS `norostat_point_version_list`: the statement
\* first commits the transaction, then creates the table unless it fails.
CreatePointVersionListStep(c) ==
  /\ tx[c].pc = "create_point_version_list"
  /\ \E fails \in BOOLEAN :
       /\ db' = IF fails THEN Committed(c) ELSE CreatePointVersionList(Committed(c))
       /\ tx' = [tx EXCEPT ![c] =
                   IF fails THEN Raised(c, "error")
                   ELSE [tx[c] EXCEPT !.work = EmptyDb, !.slocks = {}, !.xlocks = {},
                                      !.pc = "create_point_diffs"]]
  /\ calls' = [calls EXCEPT ![tx[c].call].committed = TRUE]
  /\ recorded' = (VersionOf(LongRawOf(c)) :> ParsedOf(c)) @@ recorded
  /\ UNCHANGED <<last, printer, csv, admin, chs>>

CreatePointDiffsStep(c) ==
  /\ tx[c].pc = "create_point_diffs"
  /\ \E fails \in BOOLEAN :
       /\ db' = IF fails THEN db ELSE CreatePointDiffs(db)
       /\ tx' = [tx EXCEPT ![c] =
                   IF fails THEN Raised(c, "error")
                   ELSE [tx[c] EXCEPT !.pc = "commit"]]
  /\ UNCHANGED <<recorded, last, calls, printer, csv, admin, chs>>

\* cnx.commit() and cnx.close()
CommitAndClose(c) ==
  /\ tx[c].pc = "commit"
  /\ \E fails \in BOOLEAN :
       tx' = [tx EXCEPT ![c].pc = "done", ![c].outcome = IF fails THEN "error" ELSE "ok"]
  /\ UNCHANGED <<db, recorded, last, calls, printer, csv, admin, chs>>

\* A statement before the CREATE TABLEs raises (a lost connection, a lock
\* wait that times out, a deadlock the server breaks): close() rolls back.
StatementFails(c) ==
  /\ tx[c].pc \in {"previous", "next_version", "next", "register",
                   "measurement_type_pool", "insert_measurement_type_pool",
                   "location_pool", "insert_location_pool",
                   "week_pool", "insert_week_pool", "diffs",
                   "create_point_version_list"}
  /\ tx' = [tx EXCEPT ![c] = Raised(c, "error")]
  /\ db' = CloseWithoutCommit(c)
  /\ UNCHANGED <<recorded, last, calls, printer, csv, admin, chs>>

NextTx ==
  \E c \in Connections :
    \/ \E long_raw \in TxLongRaws : Begin(c, long_raw)
    \/ PopulatePrevious(c)
    \/ FindNextVersion(c)
    \/ PopulateNext(c)
    \/ Register(c)
    \/ InsertPools(c)
    \/ RecordDiffAndRepair(c)
    \/ CreatePointVersionListStep(c)
    \/ CreatePointDiffsStep(c)
    \/ CommitAndClose(c)
    \/ StatementFails(c)

SpecTx == Init /\ [][NextTx]_vars

(***************************************************************************)
(* SpecTxPoint: connection 1 runs record_long_raw and connection 2 runs    *)
(* update_point, both statement by statement. update_point is the only     *)
(* writer of the two point tables; it reads the raw tables as committed,   *)
(* waiting for the exclusive locks of the other connection.                *)
(***************************************************************************)
\* cnx.start_transaction(isolation_level='serializable') of update_point.
UpdatePointBegin(c) ==
  /\ ~ Active(c)
  /\ tx' = [o \in Connections |->
              IF o = c
                THEN [IdleTx EXCEPT !.pc = "point_select", !.concurrent = Active(Other(c))]
                ELSE [tx[o] EXCEPT !.concurrent = @ \/ Active(o)]]
  /\ UNCHANGED <<db, recorded, last, calls, printer, csv, admin, chs>>

\* The SELECT of the raw diffs at versions not in the point version list,
\* and the comprehension that filters and converts them.
SelectRawDiffs(c) ==
  /\ tx[c].pc = "point_select"
  /\ \A table \in {"diffs", "measurement_type_pool", "week_pool"} : CanRead(c, table)
  /\ LET filtered == PointFilter(raw_datatable_diff_selection(db))
         raises ==
           \/ "norostat_point_version_list" \notin db.tables
           \/ \E r \in filtered : r.new_value # NULL /\ r.new_value[1] \notin IntStrings
     IN tx' = [tx EXCEPT ![c] =
                 IF raises THEN Raised(c, "error")
                 ELSE [tx[c] EXCEPT
                         !.selection = filtered,
                         !.slocks = UNION { SharedLocks(c, table) :
                                      table \in {"diffs", "measurement_type_pool", "week_pool"} },
                         !.pc = "point_version_list"]]
  /\ db' = CloseWithoutCommit(c)
  /\ UNCHANGED <<recorded, last, calls, printer, csv, admin, chs>>

\* INSERT INTO `norostat_point_version_list` SELECT DISTINCT ... FROM
\* `norostat_raw_datatable_version_list` WHERE ... NOT IN (point version list)
InsertPointVersionList(c) ==
  /\ tx[c].pc = "point_version_list"
  /\ CanRead(c, "version_list")
  /\ tx' = [tx EXCEPT
              ![c].work = [EmptyDb EXCEPT
                             !.point_version_list =
                                db.point_version_list \cup
                                  (db.version_list \ db.point_version_list),
                             !.point_diffs = db.point_diffs],
              ![c].slocks = SharedLocks(c, "version_list"),
              ![c].xlocks = @ \cup {"point_version_list"},
              ![c].pc = "point_diffs"]
  /\ UNCHANGED <<db, recorded, last, calls, printer, csv, admin, chs>>

\* cursor.executemany(INSERT INTO `norostat_point_diffs` ..., point_diff_insertion)
InsertPointDiffs(c) ==
  /\ tx[c].pc = "point_diffs"
  /\ LET filtered == tx[c].selection
         raises ==
           \/ filtered # {} /\ "norostat_point_diffs" \notin db.tables
           \/ \E a, b \in filtered : a # b /\ PointKey(PointRow(a)) = PointKey(PointRow(b))
           \/ \E a \in filtered, e \in db.point_diffs : PointKey(PointRow(a)) = PointKey(e)
     IN tx' = [tx EXCEPT ![c] =
                 IF raises THEN [Raised(c, "error") EXCEPT !.selection = {}]
                 ELSE [tx[c] EXCEPT
                         !.work = [tx[c].work EXCEPT
                                     !.point_diffs = @ \cup { PointRow(r) : r \in filtered }],
                         !.xlocks = @ \cup {"point_diffs"},
                         !.pc = "point_commit"]]
  /\ db' = CloseWithoutCommit(c)
  /\ UNCHANGED <<recorded, last, calls, printer, csv, admin, chs>>

\* cnx.commit() and cnx.close() of update_point.
UpdatePointCommit(c) ==
  /\ tx[c].pc = "point_commit"
  /\ db' = [db EXCEPT !.point_version_list = tx[c].work.point_version_list,
                      !.point_diffs = tx[c].work.point_diffs]
  /\ tx' = [tx EXCEPT ![c] = [tx[c] EXCEPT !.pc = "done", !.outcome = "ok",
                                           !.work = EmptyDb, !.slocks = {}, !.xlocks = {}]]
  /\ UNCHANGED <<recorded, last, calls, printer, csv, admin, chs>>

\* A statement of update_point raises (a lost connection, a deadlock the
\* server breaks): close() rolls back.
UpdatePointFails(c) ==
  /\ tx[c].pc \in {"point_select", "point_version_list", "point_diffs", "point_commit"}
  /\ tx' = [tx EXCEPT ![c] = [Raised(c, "error") EXCEPT !.selection = {}]]
  /\ db' = CloseWithoutCommit(c)
  /\ UNCHANGED <<recorded, last, calls, printer, csv, admin, chs>>

NextTxPoint ==
  \/ \E long_raw \in TxLongRaws : Begin(1, long_raw)
  \/ PopulatePrevious(1)
  \/ FindNextVersion(1)
  \/ PopulateNext(1)
  \/ Register(1)
  \/ InsertPools(1)
  \/ RecordDiffAndRepair(1)
  \/ CreatePointVersionListStep(1)
  \/ CreatePointDiffsStep(1)
  \/ CommitAndClose(1)
  \/ StatementFails(1)
  \/ UpdatePointBegin(2)
  \/ SelectRawDiffs(2)
  \/ InsertPointVersionList(2)
  \/ InsertPointDiffs(2)
  \/ UpdatePointCommit(2)
  \/ UpdatePointFails(2)

SpecTxPoint == Init /\ [][NextTxPoint]_vars

(***************************************************************************)
(* SpecChains: the two anti-join queries of record_long_raw applied to an  *)
(* arbitrary stored diff chain (any set of diff rows the PRIMARY KEY       *)
(* admits), as of any target version.                                      *)
(***************************************************************************)
ChainCells == [measurement_type_id : {1, 2}, location_id : {1}, week_id : {1}]

ChainKeys == AllVersions \X ChainCells

\* What a chain holds for a key: 0 no row, 1 a tombstone, 2 and 3 a value.
ChainCodes == 0 .. 3

ChainValue(code) ==
  CASE code = 1 -> NULL
    [] code = 2 -> Some("5")
    [] code = 3 -> Some("7")

ChainDiffs(f) == { DiffRow(k[1], k[2], ChainValue(f[k])) : k \in { x \in ChainKeys : f[x] # 0 } }

InitChains ==
  /\ \E f \in [ChainKeys -> ChainCodes] :
       db = [EmptyDb EXCEPT !.diffs = ChainDiffs(f),
                            !.version_list = { RowVersion(r) : r \in ChainDiffs(f) },
                            !.measurement_type_pool = <<"2012-13", "note">>,
                            !.location_pool = <<"states A">>,
                            !.week_pool = <<"wk1">>]
  /\ recorded = <<>>
  /\ last = [op |-> "none", version |-> NoVersion, outcome |-> "none"]
  /\ tx = [c \in Connections |-> IdleTx]
  /\ calls = <<>>
  /\ printer = IdlePrinter
  /\ csv = [pc |-> "none"]
  /\ admin = [pc |-> "none"]
  /\ chs = [pc |-> "none"]

\* The INSERT ... SELECT that fills `norostat_raw_datatable_previous` and the
\* one that fills `norostat_raw_datatable_next`, both as of `version`.
PopulateTables(version) ==
  /\ last.op = "none"
  /\ tx' = [tx EXCEPT
              ![1].previous = norostat_raw_datatable_previous(db.diffs, version[1], version[2]),
              ![1].next = norostat_raw_datatable_next(db.diffs, version)]
  /\ last' = [op |-> "populate", version |-> version, outcome |-> "ok"]
  /\ UNCHANGED <<db, recorded, calls, printer, csv, admin, chs>>

NextChains == \E version \in AllVersions : PopulateTables(version)

SpecChains == InitChains /\ [][NextChains]_vars

(***************************************************************************)
(* SpecPrinter: APrinter.__call__ on a ClassicPrinter or a JSONPrinter.    *)
(* The row generator produces `rows` rows and then ends or raises. A text  *)
(* is a sequence of tokens: "{", "[" (the opening of the array), "message" *)
(* (the warning string written as an element), "row" (a row object), ",",  *)
(* "]", "result" (what follows the array), "error" (the error object).     *)
(* `chunks` is the stream: the chunks yielded so far, each with the hook   *)
(* that returned it.                                                       *)
(***************************************************************************)
Formats == {"classic", "json"}

\* APrinter.__init__, for every request and every generator.
Printers ==
  [pc : {"start"}, format : Formats,
   show_hard_api_key_warning : BOOLEAN, requests_left : {0, 1},
   get_multiples_count : {-1, 0}, is_compatibility_mode : BOOLEAN,
   max_results : 0 .. MaxResults, rows : 0 .. MaxRows, raises : BOOLEAN,
   produced : {0}, count : {0}, result : {-1}, began : {FALSE},
   begins : {0}, ends : {0}, chunks : {<<>>}]

ClassicPrinter_begin(p) ==
  IF p.is_compatibility_mode /\ ~ p.show_hard_api_key_warning THEN <<"{">>
  ELSE IF p.show_hard_api_key_warning THEN <<"{", "[", "message">>
  ELSE <<"{", "[">>

ClassicPrinter_format_row(p, first) ==
  IF first /\ p.is_compatibility_mode /\ ~ p.show_hard_api_key_warning THEN <<"[", "row">>
  ELSE IF ~ first \/ (p.show_hard_api_key_warning /\ p.requests_left = 0) THEN <<",", "row">>
  ELSE <<"row">>

ClassicPrinter_end(p) ==
  IF p.count = 0 /\ p.is_compatibility_mode /\ ~ p.show_hard_api_key_warning
    THEN <<"result">>
    ELSE <<"]", "result">>

JSONPrinter_begin(p) ==
  IF p.show_hard_api_key_warning THEN <<"[", "message">> ELSE <<"[">>

JSONPrinter_format_row(p, first) ==
  IF ~ first \/ (p.show_hard_api_key_warning /\ p.requests_left = 0) THEN <<",", "row">>
  ELSE <<"row">>

JSONPrinter_end(p) == <<"]">>

APrinter_error(p) == <<"error">>

\* r = self._begin(); began = True; yield r
APrinter_begin(p) ==
  [p EXCEPT !.began = TRUE, !.begins = @ + 1,
            !.chunks = Append(@, [hook |-> "_begin",
                                  text |-> IF p.format = "classic"
                                             THEN ClassicPrinter_begin(p)
                                             ELSE JSONPrinter_begin(p)])]

\* A variant of _print_row whose limit lets one row more through.
APrinter_print_row_OffByOne(p) ==
  IF p.count > p.max_results THEN [p EXCEPT !.result = 2]
  ELSE [p EXCEPT !.result = IF p.count = 0 THEN 1 ELSE @,
                 !.count = @ + 1,
                 !.chunks = Append(@, [hook |-> "_format_row",
                                       text |-> IF p.format = "classic"
                                                  THEN ClassicPrinter_format_row(p, p.count = 0)
                                                  ELSE JSONPrinter_format_row(p, p.count = 0)])]

\* APrinter._print_row and the yield of what it returns.
APrinter_print_row(p) ==
  IF p.count >= p.max_results THEN [p EXCEPT !.result = 2]
  ELSE [p EXCEPT !.result = IF p.count = 0 THEN 1 ELSE @,
                 !.count = @ + 1,
                 !.chunks = Append(@, [hook |-> "_format_row",
                                       text |-> IF p.format = "classic"
                                                  THEN ClassicPrinter_format_row(p, p.count = 0)
                                                  ELSE JSONPrinter_format_row(p, p.count = 0)])]

InitPrinter ==
  /\ db = EmptyDb
  /\ recorded = <<>>
  /\ last = [op |-> "none", version |-> NoVersion, outcome |-> "none"]
  /\ tx = [c \in Connections |-> IdleTx]
  /\ calls = <<>>
  /\ printer \in Printers
  /\ csv = [pc |-> "none"]
  /\ admin = [pc |-> "none"]
  /\ chs = [pc |-> "none"]

\* The stream is started: self.result = -2, began = False.
gen_start ==
  /\ printer.pc = "start"
  /\ printer' = [printer EXCEPT !.pc = "loop", !.result = -2, !.began = FALSE]
  /\ UNCHANGED <<db, recorded, last, tx, calls, csv, admin, chs>>

\* One turn of `for row in generator` with a row.
gen_row ==
  /\ printer.pc = "loop"
  /\ printer.produced < printer.rows
  /\ printer' = [APrinter_print_row(IF printer.began THEN printer ELSE APrinter_begin(printer))
                   EXCEPT !.produced = @ + 1]
  /\ UNCHANGED <<db, recorded, last, tx, calls, csv, admin, chs>>

\* The generator raises: self.result = -1; yield self._error(e).
gen_raises ==
  /\ printer.pc = "loop"
  /\ printer.produced = printer.rows
  /\ printer.raises
  /\ printer' = [printer EXCEPT !.pc = "after", !.result = -1,
                                !.chunks = Append(@, [hook |-> "_error",
                                                      text |-> APrinter_error(printer)])]
  /\ UNCHANGED <<db, recorded, last, tx, calls, csv, admin, chs>>

\* The generator ends.
gen_exhausted ==
  /\ printer.pc = "loop"
  /\ printer.produced = printer.rows
  /\ ~ printer.raises
  /\ printer' = [printer EXCEPT !.pc = "after"]
  /\ UNCHANGED <<db, recorded, last, tx, calls, csv, admin, chs>>

\* if not began: r = self._begin(); began = True; yield r
gen_begin_if_not_began ==
  /\ printer.pc = "after"
  /\ printer' = [(IF printer.began THEN printer ELSE APrinter_begin(printer)) EXCEPT !.pc = "end"]
  /\ UNCHANGED <<db, recorded, last, tx, calls, csv, admin, chs>>

\* r = self._end(); yield r
gen_end ==
  /\ printer.pc = "end"
  /\ printer' = [printer EXCEPT
                   !.pc = "done", !.ends = @ + 1,
                   !.chunks = Append(@, [hook |-> "_end",
                                         text |-> IF printer.format = "classic"
                                                    THEN ClassicPrinter_end(printer)
                                                    ELSE JSONPrinter_end(printer)])]
  /\ UNCHANGED <<db, recorded, last, tx, calls, csv, admin, chs>>

NextPrinter ==
  \/ gen_start
  \/ gen_row
  \/ gen_raises
  \/ gen_exhausted
  \/ gen_begin_if_not_began
  \/ gen_end

SpecPrinter == InitPrinter /\ [][NextPrinter]_vars

(***************************************************************************)
(* SpecCSV: two CSVPrinter instances streaming in two threads of one       *)
(* process.  _stream is an attribute of the class, so both instances write *)
(* to and read from the same StringIO; a thread may be switched between    *)
(* any two calls on it.  Texts are taken line by line, every line as one   *)
(* position of the stream.                                                 *)
(***************************************************************************)
CSVInstances == {1, 2}

\* StringIO.write at the current position: over what is there, padding
\* with NUL when the position is past the end.
StringIO_write(s, lines) ==
  LET padded == IF s.pos > Len(s.buf)
                  THEN s.buf \o [k \in 1..(s.pos - Len(s.buf)) |->
                                    [by |-> 0, what |-> "nul", n |-> 0]]
                  ELSE s.buf
  IN [buf |-> SubSeq(padded, 1, s.pos) \o lines
                \o SubSeq(padded, s.pos + Len(lines) + 1, Len(padded)),
      pos |-> s.pos + Len(lines)]

\* The next step of instance i, one call on the stream at a time.
CSVStep(c, i) ==
  LET p == c.inst[i]
      wrote(lines, pc) ==
        [c EXCEPT !.stream = StringIO_write(@, lines),
                  !.inst[i].written = @ \o lines,
                  !.inst[i].pc = pc]
  IN CASE p.pc = "loop" /\ p.count < p.rows ->
            \* _print_row: first = self.count == 0; self.count += 1
            [c EXCEPT !.inst[i].count = @ + 1,
                      !.inst[i].written = <<>>,
                      !.inst[i].pc = IF p.count = 0 THEN "writeheader" ELSE "writerow"]
       [] p.pc = "loop" /\ p.count = p.rows ->
            \* the generator ends; _end returns ""
            [c EXCEPT !.inst[i].pc = "done"]
       [] p.pc = "writeheader" ->
            wrote(<<[by |-> i, what |-> "header", n |-> 0]>>,
                  IF p.show_hard_api_key_warning THEN "warning" ELSE "writerow")
       [] p.pc = "warning" ->
            wrote(<<[by |-> i, what |-> "message", n |-> 0]>>, "writerow")
       [] p.pc = "writerow" ->
            wrote(<<[by |-> i, what |-> "row", n |-> p.count]>>, "getvalue")
       [] p.pc = "getvalue" ->
            \* self._stream.flush(); v = self._stream.getvalue()
            [c EXCEPT !.inst[i].v = c.stream.buf, !.inst[i].pc = "seek"]
       [] p.pc = "seek" ->
            [c EXCEPT !.stream.pos = 0, !.inst[i].pc = "truncate"]
       [] p.pc = "truncate" ->
            \* self._stream.truncate(0); return v
            [c EXCEPT !.stream.buf = <<>>,
                      !.inst[i].chunks = Append(@, [text |-> p.v, written |-> p.written]),
                      !.inst[i].pc = "loop"]
       [] OTHER -> c

InitCSV ==
  /\ db = EmptyDb
  /\ recorded = <<>>
  /\ last = [op |-> "none", version |-> NoVersion, outcome |-> "none"]
  /\ tx = [c \in Connections |-> IdleTx]
  /\ calls = <<>>
  /\ printer = IdlePrinter
  /\ \E rows \in [CSVInstances -> 1..MaxCSVRows], warning \in BOOLEAN :
       \* _stream = StringIO(); each instance with its rows to come, count = 0
       csv = [pc |-> "streaming", stream |-> [buf |-> <<>>, pos |-> 0],
              inst |-> [i \in CSVInstances |->
                          [pc |-> "loop", rows |-> rows[i],
                           show_hard_api_key_warning |-> warning,
                           count |-> 0, written |-> <<>>, v |-> <<>>,
                           chunks |-> <<>>]]]
  /\ admin = [pc |-> "none"]
  /\ chs = [pc |-> "none"]

\* The thread of instance i runs until its next call on the stream.
CSVThread(i) ==
  /\ csv.inst[i].pc # "done"
  /\ csv' = CSVStep(csv, i)
  /\ UNCHANGED <<db, recorded, last, tx, calls, printer, admin, chs>>

NextCSV == \E i \in CSVInstances : CSVThread(i)

SpecCSV == InitCSV /\ [][NextCSV]_vars

\* One whole turn of the loop of instance i, from the fetch of a row to the
\* chunk _format_row returns, with no switch of thread inside it.
RECURSIVE CSVTurn(_, _)
CSVTurn(c, i) ==
  LET d == CSVStep(c, i)
  IN IF d.inst[i].pc \in {"loop", "done"} THEN d ELSE CSVTurn(d, i)

CSVWholeTurn(i) ==
  /\ csv.inst[i].pc # "done"
  /\ csv' = CSVTurn(csv, i)
  /\ UNCHANGED <<db, recorded, last, tx, calls, printer, admin, chs>>

\* The two instances served by one thread that switches between the two
\* streams only where a generator yields.
SpecCSVWhole == InitCSV /\ [][\E i \in CSVInstances : CSVWholeTurn(i)]_vars

(***************************************************************************)
(* SpecAdmin: the admin pages (src/src/server/admin/__init__.py), one      *)
(* request after the other.  resolve_auth_token and APIUser are defined    *)
(* elsewhere: the token a request resolves to is an input (None or any     *)
(* string), and of APIUser only the effect of each call on the users is    *)
(* kept.                                                                   *)
(***************************************************************************)
\* What resolve_auth_token() returns: None, or the string of the request.
AuthTokens == {NULL, Some(""), Some("pw"), Some("other")}

\* enable_admin: bool(ADMIN_PASSWORD)
enable_admin(a) == a.ADMIN_PASSWORD # ""

\* _require_admin raises Unauthorized:
\* token is None or token != ADMIN_PASSWORD
require_admin_raises(a, token) == token = NULL \/ token[1] # a.ADMIN_PASSWORD

\* What a handler did, kept for the request that ran last.
Handled(a, handler, token, outcome, touched) ==
  [a EXCEPT !.last = [handler |-> handler, token |-> token,
                      outcome |-> outcome, touched |-> touched]]

InitAdmin ==
  /\ db = EmptyDb
  /\ recorded = <<>>
  /\ last = [op |-> "none", version |-> NoVersion, outcome |-> "none"]
  /\ tx = [c \in Connections |-> IdleTx]
  /\ calls = <<>>
  /\ printer = IdlePrinter
  /\ csv = [pc |-> "none"]
  \* ADMIN_PASSWORD as configured; "" is no password
  /\ \E password \in {"", "pw"} :
       admin = [pc |-> "serving", ADMIN_PASSWORD |-> password,
                users |-> <<>>, next_id |-> 1,
                last |-> [handler |-> "none", token |-> NULL,
                          outcome |-> "none", touched |-> <<>>]]
  /\ chs = [pc |-> "none"]

\* _index, for GET and POST.
index(method, token, api_key, roles, tracking, registered) ==
  /\ admin.pc = "serving"
  /\ method = "POST" => admin.next_id <= MaxUsers
  /\ admin' =
       IF require_admin_raises(admin, token)
         THEN Handled(admin, "_index", token, "Unauthorized", <<>>)
       ELSE IF method = "POST"
         \* APIUser.insert_user, then APIUser.assign_user_roles(user.id, roles)
         THEN Handled([admin EXCEPT
                         !.users = @ @@ (admin.next_id :>
                                           [api_key |-> api_key, roles |-> roles,
                                            tracking |-> tracking,
                                            registered |-> registered]),
                         !.next_id = @ + 1],
                      "_index", token, "overview",
                      <<"insert_user", "assign_user_roles", "list">>)
       ELSE Handled(admin, "_index", token, "overview", <<"list">>)
  /\ UNCHANGED <<db, recorded, last, tx, calls, printer, csv, chs>>

\* _detail, for GET, PUT, POST and DELETE; `delete` is "delete" in
\* request.values.
detail(user_id, method, delete, token, api_key, roles, tracking, registered) ==
  /\ admin.pc = "serving"
  /\ admin' =
       IF require_admin_raises(admin, token)
         THEN Handled(admin, "_detail", token, "Unauthorized", <<>>)
       ELSE IF user_id \notin DOMAIN admin.users
         THEN Handled(admin, "_detail", token, "NotFound", <<"find_user">>)
       ELSE IF method = "DELETE" \/ delete
         \* user.delete_user()
         THEN Handled([admin EXCEPT
                         !.users = [u \in DOMAIN admin.users \ {user_id} |->
                                      admin.users[u]]],
                      "_detail", token, "redirect", <<"find_user", "delete_user">>)
       ELSE IF method \in {"PUT", "POST"}
         \* user.update_user(api_key, roles, tracking, registered)
         THEN Handled([admin EXCEPT
                         !.users[user_id] = [api_key |-> api_key, roles |-> roles,
                                             tracking |-> tracking,
                                             registered |-> registered]],
                      "_detail", token, "detail",
                      <<"find_user", "update_user">>)
       ELSE Handled(admin, "_detail", token, "detail", <<"find_user">>)
  /\ UNCHANGED <<db, recorded, last, tx, calls, printer, csv, chs>>

\* The values of a request: api_key, roles, tracking, registered.  A
\* request whose handler reads none of them has the first.
RequestValues(method, delete) ==
  IF method \in {"PUT", "POST"} /\ ~ delete
    THEN {"k1", "k2"} \X (SUBSET {"r"}) \X BOOLEAN \X BOOLEAN
    ELSE {<<"k1", {}, FALSE, FALSE>>}

NextAdmin ==
  \E token \in AuthTokens :
    \/ \E method \in {"GET", "POST"} :
         \E v \in RequestValues(method, FALSE) :
           index(method, token, v[1], v[2], v[3], v[4])
    \/ \E user_id \in 1..MaxUsers, method \in {"GET", "PUT", "POST", "DELETE"},
          delete \in BOOLEAN :
         \E v \in RequestValues(method, delete) :
           detail(user_id, method, delete, token, v[1], v[2], v[3], v[4])

SpecAdmin == InitAdmin /\ [][NextAdmin]_vars

(***************************************************************************)
(* SpecChs: calls of CovidHospSomething.add_column                         *)
(* (src/src/common/covid_hosp/covid_hosp_schema_io.py) on the schema       *)
(* definitions read from the YAML file.  A string is its characters, each  *)
(* taken by its kind: "w" is a character of [a-zA-Z0-9_], "-" is any other *)
(* character but the newline, "\n" is the newline; the characters of       *)
(* [a-zA-Z0-9_] a string starts with are kept as their number.             *)
(***************************************************************************)
\* {3,64} of MYSQL_COL_NAME_PATTERN.
MinColNameLen == 3

MaxColNameLen == 64

\* The string of n characters of [a-zA-Z0-9_] followed by the characters
\* of rest.
Str(n, rest) == [word |-> n, rest |-> rest]

\* The names add_column is called with: around both limits of the length,
\* with and without a character outside the class, with and without a
\* newline at the end.
ColNames ==
  {Str(0, <<>>), Str(2, <<>>), Str(3, <<>>), Str(64, <<>>), Str(65, <<>>),
   Str(2, <<"\n">>), Str(3, <<"\n">>), Str(64, <<"\n">>),
   Str(3, <<"\n", "\n">>), Str(1, <<"-", "w">>), Str(0, <<"\n", "w", "w", "w">>)}

\* The names given as sql_name, besides None.
SqlNames ==
  {Str(0, <<>>), Str(2, <<>>), Str(3, <<>>), Str(65, <<>>),
   Str(64, <<"\n">>), Str(1, <<"-", "w">>)}

DatasetNames == {"ds1", "ds2"}

\* [a-zA-Z0-9_]{lo,hi} over the whole of s.
IsWord(s, lo, hi) ==
  /\ s.word + Len(s.rest) >= lo
  /\ s.word + Len(s.rest) <= hi
  /\ \A k \in 1..Len(s.rest) : s.rest[k] = "w"

\* s ends with a newline; s without its last character.
EndsWithNewline(s) == Len(s.rest) > 0 /\ s.rest[Len(s.rest)] = "\n"

Front(s) == Str(s.word, SubSeq(s.rest, 1, Len(s.rest) - 1))

\* re.compile(r'^[a-zA-Z0-9_]{3,64}$').match(s): in Python `$` matches at
\* the end of the string and also just before a newline that ends it.
MYSQL_COL_NAME_PATTERN_match(s) ==
  \/ IsWord(s, MinColNameLen, MaxColNameLen)
  \/ EndsWithNewline(s) /\ IsWord(Front(s), MinColNameLen, MaxColNameLen)

\* add_column on the schema definitions c.
add_column_result(c, ds_name, col_name, dtype, sql_name, col_width) ==
  LET \* f"{dtype}:{col_width}" if col_width else dtype
      dtype_cplx == IF col_width # NULL /\ col_width[1] # 0
                      THEN <<dtype, col_width[1]>>
                      ELSE <<dtype>>
      \* the name used for the MySQL column: sql_name, or col_name when
      \* sql_name is None
      used == IF sql_name = NULL THEN col_name ELSE sql_name[1]
      stored == IF col_name = used THEN NULL ELSE Some(used)
      entry == <<dtype_cplx, col_name, stored>>
      called(outcome) == [op |-> "add_column", ds_name |-> ds_name,
                          sql_name |-> used, outcome |-> outcome]
  IN IF ~ MYSQL_COL_NAME_PATTERN_match(used)
       THEN [c EXCEPT !.last = called("Exception")]
     ELSE IF ds_name \notin DOMAIN c.yaml_content
       THEN [c EXCEPT !.last = called("KeyError")]
     ELSE [c EXCEPT !.yaml_content[ds_name] = Append(@, entry),
                    !.last = called("ok"),
                    !.added = @ + 1]

\* read_schemadefs: two datasets, one with columns already.
InitChs ==
  /\ db = EmptyDb
  /\ recorded = <<>>
  /\ last = [op |-> "none", version |-> NoVersion, outcome |-> "none"]
  /\ tx = [c \in Connections |-> IdleTx]
  /\ calls = <<>>
  /\ printer = IdlePrinter
  /\ csv = [pc |-> "none"]
  /\ admin = [pc |-> "none"]
  /\ chs = [pc |-> "loaded",
            yaml_content |-> [ds \in DatasetNames |->
                                IF ds = "ds1"
                                  THEN << <<<<"str", 8>>, Str(3, <<>>), NULL>>,
                                          <<<<"str">>, Str(1, <<"-", "w">>), Some(Str(3, <<>>))>> >>
                                  ELSE <<>>],
            added |-> 0,
            last |-> [op |-> "none", ds_name |-> "none", sql_name |-> Str(0, <<>>),
                      outcome |-> "none"]]

add_column(ds_name, col_name, dtype, sql_name, col_width) ==
  /\ chs.pc = "loaded"
  /\ chs.added < MaxAddedColumns
  /\ chs' = add_column_result(chs, ds_name, col_name, dtype, sql_name, col_width)
  /\ UNCHANGED <<db, recorded, last, tx, calls, printer, csv, admin>>

NextChs ==
  \E ds_name \in DatasetNames \cup {"ds3"}, col_name \in ColNames, dtype \in {"str"},
     sql_name \in {NULL} \cup { Some(n) : n \in SqlNames },
     col_width \in {NULL, Some(0), Some(8)} :
    add_column(ds_name, col_name, dtype, sql_name, col_width)

SpecChs == InitChs /\ [][NextChs]_vars

(***************************************************************************)
(* Reference notions the properties are stated with.                       *)
(***************************************************************************)
\* The table as of version v, with strings for ids: per cell the diff entry
\* with the greatest version at or before v, unless it is a tombstone.
Reconstruct(d, v) ==
  LET upto == { r \in d.diffs : VersionLE(RowVersion(r), v) }
      greatest == { r \in upto :
                      \A o \in upto : SameCell(r, o) => VersionLE(RowVersion(o), RowVersion(r)) }
  IN { [measurement_type |-> d.measurement_type_pool[r.measurement_type_id],
        location |-> d.location_pool[r.location_id],
        week |-> d.week_pool[r.week_id],
        value |-> r.new_value[1]] : r \in { x \in greatest : x.new_value # NULL } }

\* The diff entries stored at exactly version v, with strings for ids.
EntriesAt(d, v) ==
  { [measurement_type |-> d.measurement_type_pool[r.measurement_type_id],
     location |-> d.location_pool[r.location_id],
     week |-> d.week_pool[r.week_id],
     new_value |-> r.new_value] : r \in { x \in d.diffs : RowVersion(x) = v } }

SameKey(a, b) ==
  /\ a.measurement_type = b.measurement_type
  /\ a.location = b.location
  /\ a.week = b.week

\* The diff that turns table `from` into table `to`: a value entry for every
\* cell of `to` that is absent from or different in `from`, a tombstone for
\* every cell of `from` that is absent from `to`.
TableDiff(from, to) ==
  { [measurement_type |-> c.measurement_type, location |-> c.location,
     week |-> c.week, new_value |-> Some(c.value)] : c \in to \ from }
  \cup
  { [measurement_type |-> c.measurement_type, location |-> c.location,
     week |-> c.week, new_value |-> NULL] :
       c \in { x \in from : ~ \E y \in to : SameKey(x, y) } }

Greatest(versions) == CHOOSE v \in versions : \A u \in versions : VersionLE(u, v)

Least(versions) == CHOOSE v \in versions : \A u \in versions : VersionLE(v, u)

Before(versions, v) == { u \in versions : VersionLT(u, v) }

After(versions, v) == { u \in versions : VersionLT(v, u) }

\* The snapshot recorded at the greatest recorded version at or before v.
SnapshotAsOf(v) ==
  LET upto == { u \in DOMAIN recorded : VersionLE(u, v) }
  IN IF upto = {} THEN {} ELSE recorded[Greatest(upto)]

\* This step is a successful record_long_raw call at version v.
IngestedOk(v) ==
  /\ v \notin db.version_list
  /\ v \in db'.version_list
  /\ last'.op = "record_long_raw"
  /\ last'.outcome = "ok"
  /\ last'.version = v

LastIngestedOk == last.op = "record_long_raw" /\ last.outcome = "ok"

(***************************************************************************)
(* Properties.                                                             *)
(***************************************************************************)
\* C1: when the snapshots are recorded in strictly increasing version order,
\* the table reconstructed as of any v equals the snapshot recorded at the
\* greatest recorded version <= v, and is empty when there is none.
C1_RoundTripInOrder ==
  \A v \in AllVersions : Reconstruct(db, v) = SnapshotAsOf(v)

\* C1 witness: three snapshots were recorded in order, a cell was removed on
\* the way (a tombstone is stored) and the latest table is not empty.
C1_Witness ==
  /\ LastIngestedOk
  /\ Cardinality(db.version_list) = 3
  /\ \E r \in db.diffs : r.new_value = NULL
  /\ Reconstruct(db, last.version) # {}

\* C2: a successful record_long_raw at V leaves the table reconstructed as
\* of every already-recorded version greater than V as it was (the snapshot
\* recorded there); of the later versions only the next one has its diff
\* entries changed.
C2_OutOfOrderPreservesLater ==
  [][\A v \in AllVersions :
       IngestedOk(v) =>
         \A n \in After(db.version_list, v) :
           /\ Reconstruct(db', n) = Reconstruct(db, n)
           /\ Reconstruct(db', n) = recorded[n]
           /\ n # Least(After(db.version_list, v)) =>
                { r \in db'.diffs : RowVersion(r) = n } = { r \in db.diffs : RowVersion(r) = n }
    ]_vars

\* C2 witness: the last call inserted a version between two recorded ones
\* and the diff of the next version is not empty.
C2_Witness ==
  /\ LastIngestedOk
  /\ Before(db.version_list, last.version) # {}
  /\ After(db.version_list, last.version) # {}
  /\ EntriesAt(db, Least(After(db.version_list, last.version))) # {}

\* C4: no redundant diffs: two diff entries of one cell that are consecutive
\* in version order have different new_value (NULL counts as a value).
C4_NoRedundantDiffs ==
  \A a, b \in db.diffs :
    ( /\ SameCell(a, b)
      /\ VersionLT(RowVersion(a), RowVersion(b))
      /\ ~ \E c \in db.diffs :
             /\ SameCell(a, c)
             /\ VersionLT(RowVersion(a), RowVersion(c))
             /\ VersionLT(RowVersion(c), RowVersion(b)) )
    => a.new_value # b.new_value

\* C4 witness: after an out-of-order insertion a cell has three diff entries.
C4_Witness ==
  /\ LastIngestedOk
  /\ After(db.version_list, last.version) # {}
  /\ \E a, b, c \in db.diffs :
       /\ SameCell(a, b) /\ SameCell(b, c)
       /\ VersionLT(RowVersion(a), RowVersion(b))
       /\ VersionLT(RowVersion(b), RowVersion(c))

\* C5: record_long_raw with a version that is already in the version list
\* fails, a duplicate-version error being the reported one, and leaves the
\* version list, the diffs and the pools as they were, so that every
\* reconstruction still yields the snapshot recorded first.
C5_DuplicateVersionRejected ==
  \A v \in db.version_list :
    /\ \A long_raw \in { x \in LongRaws : VersionOf(x) = v } :
         /\ \E r \in record_long_raw_results(db, long_raw) : r.outcome = "DuplicateVersion"
         /\ \A r \in record_long_raw_results(db, long_raw) :
              /\ r.outcome \in {"DuplicateVersion", "error"}
              /\ r.db = db
              /\ ~ r.committed
    /\ Reconstruct(db, v) = recorded[v]

\* C5 witness: the last call was rejected as a duplicate while diffs are stored.
C5_Witness ==
  /\ last.op = "record_long_raw"
  /\ last.outcome = "DuplicateVersion"
  /\ db.diffs # {}

\* C8: wherever V falls in the timeline, a successful record_long_raw of
\* snapshot S at V makes the table reconstructed as of V equal to S and
\* leaves the reconstruction at every previously recorded version unchanged.
C8_InsertAnywhere ==
  [][\A v \in AllVersions :
       IngestedOk(v) =>
         /\ Reconstruct(db', v) = recorded'[v]
         /\ \A u \in db.version_list : Reconstruct(db', u) = Reconstruct(db, u)
    ]_vars

\* C8 witness: the scenario V1, V2, then V0 < V1 with tables that all differ.
C8_Witness ==
  /\ LastIngestedOk
  /\ Cardinality(After(db.version_list, last.version)) = 2
  /\ Before(db.version_list, last.version) = {}
  /\ \A u, w \in db.version_list : u # w => Reconstruct(db, u) # Reconstruct(db, w)
  /\ \A u \in db.version_list : Reconstruct(db, u) # {}

\* C9: when record_long_raw inserts V and a next recorded version N exists,
\* the diff entries stored at exactly N afterwards are the diff from the
\* inserted snapshot to the table as of N before the call.
C9_RepairContent ==
  [][\A v \in AllVersions :
       (IngestedOk(v) /\ After(db.version_list, v) # {}) =>
         LET n == Least(After(db.version_list, v))
         IN EntriesAt(db', n) = TableDiff(recorded'[v], Reconstruct(db, n))
    ]_vars

\* C9 witness: after an out-of-order insertion the next version holds both a
\* value entry and a tombstone.
C9_Witness ==
  /\ LastIngestedOk
  /\ After(db.version_list, last.version) # {}
  /\ LET n == Least(After(db.version_list, last.version))
     IN /\ \E e \in EntriesAt(db, n) : e.new_value = NULL
        /\ \E e \in EntriesAt(db, n) : e.new_value # NULL

\* C10: after a successful record_long_raw of S at V the diff entries stored
\* at exactly V are the diff from the previous state (the table as of the
\* greatest recorded version below V, empty when there is none) to S.
C10_ForwardDiffContent ==
  [][\A v \in AllVersions :
       IngestedOk(v) =>
         LET below == Before(db.version_list, v)
             previous_state == IF below = {} THEN {} ELSE Reconstruct(db, Greatest(below))
         IN EntriesAt(db', v) = TableDiff(previous_state, recorded'[v])
    ]_vars

\* C10 witness: the inserted version, which has a predecessor, holds a value
\* entry and a tombstone.
C10_Witness ==
  /\ LastIngestedOk
  /\ \E e \in EntriesAt(db, last.version) : e.new_value = NULL
  /\ \E e \in EntriesAt(db, last.version) : e.new_value # NULL
  /\ Before(db.version_list, last.version) # {}

\* The point projection as of version v, with strings for location ids: per
\* (location, epiweek) the point diff with the greatest version at or before
\* v, unless it is a tombstone.
PointReconstruct(d, v) ==
  LET upto == { r \in d.point_diffs : VersionLE(RowVersion(r), v) }
      same(a, b) == a.location_id = b.location_id /\ a.epiweek = b.epiweek
      greatest == { r \in upto :
                      \A o \in upto : same(r, o) => VersionLE(RowVersion(o), RowVersion(r)) }
  IN { [location |-> d.location_pool[r.location_id],
        epiweek |-> r.epiweek,
        value |-> r.new_value[1]] : r \in { x \in greatest : x.new_value # NULL } }

\* The projection of a raw table: the season filter and the key mapping.
Projection(table) ==
  { [location |-> c.location,
     epiweek |-> season_db_to_epiweek(c.measurement_type, c.week),
     value |-> int(c.value)] : c \in { x \in table : prog_match(x.measurement_type) } }

\* C3: once update_point has run last, for every recorded version v the
\* point projection as of v equals the projection of the raw table
\* reconstructed as of v.
C3_PointMatchesRaw ==
  (last.op = "update_point" /\ last.outcome = "ok") =>
    \A v \in db.version_list : PointReconstruct(db, v) = Projection(Reconstruct(db, v))

\* The calls of SpecTx whose writes were committed.
CommittedCalls == { i \in DOMAIN calls : calls[i].committed }

\* The databases that running the calls of `cs`, each to its commit, one
\* after the other in some order leaves, starting from the empty database.
RECURSIVE SerialResults(_)
SerialResults(cs) ==
  IF cs = {} THEN {EmptyDb}
  ELSE UNION { UNION { { r.db : r \in { x \in record_long_raw_results(d, calls[i].long_raw) :
                                          x.committed } } :
                         d \in SerialResults(cs \ {i}) } : i \in cs }

\* C7: whatever two concurrent record_long_raw calls commit is what running
\* the committed calls one after the other in some order gives, and every
\* committed version reconstructs to its own snapshot.
C7_ConcurrentCallsSerializable ==
  /\ db \in SerialResults(CommittedCalls)
  /\ \A i \in CommittedCalls :
       Reconstruct(db, VersionOf(calls[i].long_raw))
         = norostat_raw_datatable_parsed(calls[i].long_raw)

\* C7 witness: two calls whose transactions were open at the same time both
\* succeeded, at adjacent versions, with different non-empty snapshots.
C7_Witness ==
  /\ \A c \in Connections :
       tx[c].pc = "done" /\ tx[c].outcome = "ok" /\ tx[c].concurrent
  /\ tx[1].call # tx[2].call
  /\ VersionOf(calls[tx[1].call].long_raw) # VersionOf(calls[tx[2].call].long_raw)
  /\ \A c \in Connections : calls[tx[c].call].long_raw.long_raw_df # {}
  /\ calls[tx[1].call].long_raw.long_raw_df # calls[tx[2].call].long_raw.long_raw_df

\* C6: a record_long_raw call that fails at any step leaves the committed
\* version list, diff entries and pools as they were before the call.
\* No committed state shows a version without its diffs, or a next version
\* without its recomputed diff: every registered version reconstructs to
\* the snapshot recorded there.
C6_FailedCallLeavesNoTrace ==
  [][/\ (last'.op = "record_long_raw" /\ last'.outcome # "ok") =>
          /\ db'.version_list = db.version_list
          /\ db'.diffs = db.diffs
          /\ db'.measurement_type_pool = db.measurement_type_pool
          /\ db'.location_pool = db.location_pool
          /\ db'.week_pool = db.week_pool
     /\ \A v \in db'.version_list : Reconstruct(db', v) = recorded'[v]
    ]_vars

\* The reference reconstruction of a diff chain as of version v, by ids: a
\* cell is present with value x exactly when the entry of that cell with the
\* greatest version at or before v exists and its new_value is x, not NULL.
ReferenceTable(diffs, v) ==
  LET upto == { r \in diffs : VersionLE(RowVersion(r), v) }
      cells == { CellOf(r) : r \in upto }
      latest(c) == CHOOSE r \in upto :
                     /\ CellOf(r) = c
                     /\ \A o \in upto : CellOf(o) = c => VersionLE(RowVersion(o), RowVersion(r))
  IN { [measurement_type_id |-> c.measurement_type_id,
        location_id |-> c.location_id,
        week_id |-> c.week_id,
        value |-> latest(c).new_value[1]] :
         c \in { x \in cells : latest(x).new_value # NULL } }

\* C11: for every diff chain and every target version the previous-state
\* table and the next-state table built by the self anti-join equal the
\* reference reconstruction as of the target: a cell whose latest entry at
\* or before the target is a tombstone, or which has no entry, is absent.
C11_AntiJoinIsReconstruction ==
  last.op = "populate" =>
    /\ tx[1].previous = ReferenceTable(db.diffs, last.version)
    /\ tx[1].next = ReferenceTable(db.diffs, last.version)

\* C11 witness: the tables were built as of a target where one cell's latest
\* entry is a tombstone over an earlier value and the other cell is present
\* with a value that replaced an earlier one.
C11_Witness ==
  /\ last.op = "populate"
  /\ Cardinality(tx[1].previous) = 1
  /\ Cardinality(tx[1].next) = 1
  /\ \E t, e \in db.diffs :
       /\ SameCell(t, e)
       /\ VersionLT(RowVersion(e), RowVersion(t))
       /\ VersionLE(RowVersion(t), last.version)
       /\ t.new_value = NULL
       /\ e.new_value # NULL
       /\ ~ \E p \in tx[1].previous : SameCell(p, t)
  /\ \E a, b \in db.diffs :
       /\ SameCell(a, b)
       /\ VersionLT(RowVersion(a), RowVersion(b))
       /\ VersionLE(RowVersion(b), last.version)
       /\ a.new_value # NULL /\ b.new_value # NULL /\ a.new_value # b.new_value
       /\ \E p \in tx[1].next : SameCell(p, b) /\ Some(p.value) = b.new_value

\* The table as of the greatest recorded version below v in database d,
\* empty when there is none.
PredecessorTable(d, v) ==
  IF Before(d.version_list, v) = {} THEN {}
  ELSE Reconstruct(d, Greatest(Before(d.version_list, v)))

\* C12: a successful record_long_raw at a new version V of a snapshot equal
\* to the table as of V's predecessor stores no diff entry at V, leaves the
\* entries stored at the next version (when there is one) as they were, and
\* registers V in the version list.
C12_IdenticalSnapshotIsNoOp ==
  [][\A v \in AllVersions :
       ( /\ last'.op = "record_long_raw" /\ last'.outcome = "ok" /\ last'.version = v
         /\ v \notin db.version_list
         /\ recorded'[v] = PredecessorTable(db, v) )
       => /\ EntriesAt(db', v) = {}
          /\ \A n \in After(db.version_list, v) :
               { r \in db'.diffs : RowVersion(r) = n } = { r \in db.diffs : RowVersion(r) = n }
          /\ db'.version_list = db.version_list \cup {v}
    ]_vars

\* C12 witness: the last call recorded, between two recorded versions, a
\* non-empty snapshot equal to its predecessor's table; the next version has
\* diff entries.
C12_Witness ==
  /\ LastIngestedOk
  /\ Before(db.version_list, last.version) # {}
  /\ After(db.version_list, last.version) # {}
  /\ recorded[last.version] # {}
  /\ recorded[last.version] = recorded[Greatest(Before(db.version_list, last.version))]
  /\ EntriesAt(db, last.version) = {}
  /\ EntriesAt(db, Least(After(db.version_list, last.version))) # {}

\* C13: a successful record_long_raw at V adds, deletes or replaces diff
\* rows only at V and at the recorded version immediately following V; the
\* rows of every other version are the same before and after, and when no
\* later version exists every row stored before the call is still there.
C13_FrameOfIngestion ==
  [][\A v \in AllVersions :
       IngestedOk(v) =>
         LET later == After(db.version_list, v)
             touched == {v} \cup (IF later = {} THEN {} ELSE {Least(later)})
         IN /\ { r \in db'.diffs : RowVersion(r) \notin touched }
                 = { r \in db.diffs : RowVersion(r) \notin touched }
            /\ After(db.version_list, v) = {} => db.diffs \subseteq db'.diffs
    ]_vars

\* C13 witness: the last call inserted a version that has two later versions,
\* and rows are stored at the inserted version and at both later ones.
C13_Witness ==
  /\ LastIngestedOk
  /\ Cardinality(After(db.version_list, last.version)) = 2
  /\ \A u \in {last.version} \cup After(db.version_list, last.version) : EntriesAt(db, u) # {}

\* Each string of the pool has one id.
Injective(pool) == \A i, j \in DOMAIN pool : pool[i] = pool[j] => i = j

C15_PoolsStableInjective ==
  [][\A table \in PoolTables :
       /\ Injective(db'[table])
       /\ \A i \in DOMAIN db[table] : i \in DOMAIN db'[table] /\ db'[table][i] = db[table][i]
       /\ (last'.op = "record_long_raw" /\ last'.outcome = "ok") =>
            PoolStrings(recorded'[last'.version], table) \subseteq Range(db'[table])
    ]_vars

\* C15 witness: the last call succeeded with a snapshot that brought a new
\* measurement_type string and one that an earlier version had interned.
C15_Witness ==
  /\ LastIngestedOk
  /\ Len(db.measurement_type_pool) = 2
  /\ Cardinality(PoolStrings(recorded[last.version], "measurement_type_pool")) = 2
  /\ \E u \in db.version_list \ {last.version} :
       Cardinality(PoolStrings(recorded[u], "measurement_type_pool")) = 1

\* The place of a version on the timeline as one number: release_date
\* first, parse_time within a release_date.
TimelineRank(v) ==
  LET greatest_parse_time == CHOOSE m \in ParseTimes : \A p \in ParseTimes : p <= m
  IN v[1] * (greatest_parse_time + 1) + v[2]

\* C16: whatever order the versions were recorded in, the next version the
\* query of record_long_raw finds for (release_date, parse_time) is the
\* recorded version of least timeline rank among those of greater rank (a
\* later release_date outranks any parse_time), and there is none exactly
\* when no recorded version has a greater rank.
C16_NextVersionIsLeastGreater ==
  \A v \in AllVersions :
    LET found == next_version_if_any(db.version_list, v[1], v[2])
        greater == { u \in db.version_list : TimelineRank(u) > TimelineRank(v) }
    IN /\ found = { n \in greater : \A m \in greater : TimelineRank(n) <= TimelineRank(m) }
       /\ Cardinality(found) <= 1
       /\ found = {} <=> greater = {}

\* C16 witness: the last call inserted (1, 2) below the recorded (2, 1) and
\* (2, 2), whose parse_time is not greater, and the repair wrote a tombstone
\* at (2, 1).
C16_Witness ==
  /\ LastIngestedOk
  /\ last.version = <<1, 2>>
  /\ db.version_list = {<<1, 2>>, <<2, 1>>, <<2, 2>>}
  /\ \E e \in EntriesAt(db, <<2, 1>>) : e.new_value = NULL
  /\ recorded[<<2, 1>>] # recorded[<<2, 2>>]

\* Connection c has run the INSERT into the version list in its open
\* transaction.
Registered(c) == Active(c) /\ "version_list" \in tx[c].xlocks

\* Connection c has run the "Record diff" INSERTs in its open transaction.
ForwardDiffWritten(c) == Active(c) /\ "diffs" \in tx[c].xlocks

\* C17 as stated: record_long_raw registers the version only after the
\* forward diff has been computed, so a connection that has registered its
\* version has its forward diff already.
C17_RegisteredAfterForwardDiff ==
  \A c \in Connections : Registered(c) => ForwardDiffWritten(c)

\* C17 amended: the version is registered before the forward diff is
\* written, in the same transaction; when the forward-diff step of a call
\* raises, the registration is rolled back with it: the committed version
\* list is as before the step and does not hold the call's version, the
\* committed diffs are as before, and the connection keeps no lock.
C17_ForwardDiffFailureLeavesNoOrphan ==
  [][\A c \in Connections :
       (tx[c].pc = "diffs" /\ tx'[c].pc = "done") =>
         /\ Registered(c) /\ ~ ForwardDiffWritten(c)
         /\ tx'[c].outcome \in {"error", "IntegrityError"}
         /\ tx'[c].xlocks = {} /\ tx'[c].slocks = {}
         /\ db' = db
         /\ VersionOf(LongRawOf(c)) \notin db'.version_list
         /\ \A v \in db'.version_list : Reconstruct(db', v) = recorded'[v]
    ]_vars

\* C17 witness: a call with a non-empty snapshot raised in its forward-diff
\* step while another version is committed; its version is not in the list.
C17_Witness ==
  \E c \in Connections :
    /\ tx[c].pc = "done"
    /\ tx[c].raised_at = "diffs"
    /\ ParsedOf(c) # {}
    /\ db.version_list # {}
    /\ VersionOf(LongRawOf(c)) \notin db.version_list

\* C18: an empty value is never stored: no diff entry has the empty string
\* as its new_value, and no snapshot with a cell whose value is the empty
\* string has been recorded (record_long_raw rejects it without a write).
C18_EmptyValueNeverStored ==
  /\ \A r \in db.diffs : r.new_value # Some("")
  /\ \A v \in DOMAIN recorded : \A cell \in recorded[v] : cell.value # ""

\* C19: across record_long_raw and update_point calls the version list is
\* append-only: no pair is ever removed, a successful record_long_raw adds
\* exactly its own (release_date, parse_time) pair, which was not there, and
\* every other call (a failed record_long_raw, an update_point) leaves the
\* list as it was.
C19_VersionListAppendOnly ==
  [][/\ db.version_list \subseteq db'.version_list
     /\ IF last'.op = "record_long_raw" /\ last'.outcome = "ok"
          THEN /\ last'.version \notin db.version_list
               /\ db'.version_list = db.version_list \cup {last'.version}
          ELSE db'.version_list = db.version_list
    ]_vars

\* C20: after any sequence of record_long_raw calls there is at most one
\* diff entry per cell and version, and no call ends on a key collision:
\* the value rows and tombstones written at the inserted version, and the
\* rows recomputed at the next version, never meet each other or a row that
\* is already stored.
C20_OneDiffPerCellAndVersion ==
  /\ \A a, b \in db.diffs : (SameCell(a, b) /\ RowVersion(a) = RowVersion(b)) => a = b
  /\ last.outcome # "IntegrityError"
  /\ \A long_raw \in LongRaws :
       \A r \in record_long_raw_results(db, long_raw) : r.outcome # "IntegrityError"

\* C20 witness: the last call inserted a version below a recorded one; both
\* the inserted version and the next one hold a value row and a tombstone.
C20_Witness ==
  /\ LastIngestedOk
  /\ After(db.version_list, last.version) # {}
  /\ \A u \in {last.version, Least(After(db.version_list, last.version))} :
       /\ \E e \in EntriesAt(db, u) : e.new_value = NULL
       /\ \E e \in EntriesAt(db, u) : e.new_value # NULL

\* C21: update_point is idempotent. After a run that went through, a second
\* run with no record_long_raw in between goes through as well and leaves
\* the point diffs and the point version list as the first left them: it
\* selects no raw diff and finds no raw version to add.
C21_ProjectionIdempotent ==
  [][/\ (last'.op = "update_point" /\ last'.outcome = "ok") =>
          LET again == update_point_results(db', "none")
          IN /\ again.outcome = "ok"
             /\ again.db.point_diffs = db'.point_diffs
             /\ again.db.point_version_list = db'.point_version_list
             /\ raw_datatable_diff_selection(db') = {}
             /\ db'.version_list \ db'.point_version_list = {}
     /\ (/\ last.op = "update_point" /\ last.outcome = "ok"
         /\ last'.op = "update_point" /\ last'.outcome = "ok") =>
          /\ db'.point_diffs = db.point_diffs
          /\ db'.point_version_list = db.point_version_list
    ]_vars

\* C21 witness: update_point went through and the point diffs hold a value
\* and a tombstone, at two projected versions.
C21_Witness ==
  /\ last.op = "update_point" /\ last.outcome = "ok"
  /\ Cardinality(db.point_version_list) = 2
  /\ \E e \in db.point_diffs : e.new_value = NULL
  /\ \E e \in db.point_diffs : e.new_value # NULL

\* The committed raw diffs of version v, joined with the pools, that pass
\* the filter of the projection.
ProjectableRawDiffs(d, v) ==
  { r \in { [release_date |-> x.release_date, parse_time |-> x.parse_time,
             measurement_type |-> d.measurement_type_pool[x.measurement_type_id],
             location_id |-> x.location_id,
             week |-> d.week_pool[x.week_id],
             new_value |-> x.new_value] : x \in { y \in d.diffs : RowVersion(y) = v } } :
      prog_match(r.measurement_type) /\ r.new_value # Some("") }

\* C22: with update_point running beside record_long_raw, in every committed
\* state each version in the point version list has, for every committed raw
\* diff of that version that passes the filter, its point diff.
C22_ProjectedVersionsHaveTheirDiffs ==
  \A v \in db.point_version_list :
    \A r \in ProjectableRawDiffs(db, v) : PointRow(r) \in db.point_diffs

\* The part of C22 about one run: when update_point commits, every version
\* it adds to the point version list has the point diffs of its committed
\* raw diffs, and every point diff it adds comes from a committed raw diff
\* of a version it adds.
C22_CommitMarksVersionsWithTheirDiffs ==
  [][(tx[2].pc = "point_commit" /\ tx'[2].outcome = "ok" /\ tx'[2].pc = "done") =>
       LET added == db'.point_version_list \ db.point_version_list
       IN /\ \A v \in added :
               \A r \in ProjectableRawDiffs(db', v) : PointRow(r) \in db'.point_diffs
          /\ \A e \in db'.point_diffs \ db.point_diffs :
               /\ RowVersion(e) \in added
               /\ \E r \in ProjectableRawDiffs(db', RowVersion(e)) : PointRow(r) = e
    ]_vars

\* A run of update_point that started while record_long_raw was under way
\* has committed a version with its point diffs.
C22_Witness ==
  /\ tx[2].pc = "done" /\ tx[2].outcome = "ok" /\ tx[2].concurrent
  /\ db.point_diffs # {}
  /\ tx[1].pc = "done" /\ tx[1].outcome = "ok" /\ tx[1].concurrent

\* C23: the point version list holds only versions the projection touched:
\* update_point never adds a raw version none of whose diffs passes the
\* filter, or which has no diffs at all.
C23_PointVersionsAreTouched ==
  [][(last'.op = "update_point" /\ last'.outcome = "ok") =>
       \A v \in db'.point_version_list \ db.point_version_list :
         ProjectableRawDiffs(db, v) # {}
    ]_vars

\* C24: an update_point that fails before its commit leaves the point
\* version list and the point diffs as they were; an update_point that goes
\* through adds exactly the raw versions that were absent from the point
\* version list, and for each of them exactly the point diffs of its raw
\* diffs that pass the filter, none of which was there before.
C24_ProjectionResumesAfterFailure ==
  [][(last'.op = "update_point") =>
       IF last'.outcome # "ok"
         THEN /\ db'.point_version_list = db.point_version_list
              /\ db'.point_diffs = db.point_diffs
         ELSE LET absent == db.version_list \ db.point_version_list
                  rows == { PointRow(r) : r \in UNION { ProjectableRawDiffs(db, v) : v \in absent } }
              IN /\ db'.point_version_list = db.point_version_list \cup absent
                 /\ db'.point_diffs = db.point_diffs \cup rows
                 /\ rows \cap db.point_diffs = {}
                 /\ \A a, b \in db'.point_diffs : PointKey(a) = PointKey(b) => a = b
    ]_vars

\* C24 witness: update_point has failed with a version still to project,
\* after an earlier run projected another; a run started now goes through.
C24_Witness ==
  /\ last.op = "update_point" /\ last.outcome = "error"
  /\ db.point_diffs # {}
  /\ \E v \in db.version_list \ db.point_version_list : ProjectableRawDiffs(db, v) # {}
  /\ update_point_results(db, "none").outcome = "ok"

\* The raw diffs update_point is to project: version absent from the point
\* version list, season column, value not the empty string.
Qualifies(d, x) ==
  /\ RowVersion(x) \notin d.point_version_list
  /\ prog_match(d.measurement_type_pool[x.measurement_type_id])
  /\ x.new_value # Some("")

\* Point diff e is what raw diff x projects to: same version, same location,
\* the epiweek of its season and week, a tombstone for a tombstone and the
\* integer of the value otherwise.
ProjectsTo(d, x, e) ==
  /\ RowVersion(e) = RowVersion(x)
  /\ e.location_id = x.location_id
  /\ e.epiweek = season_db_to_epiweek(d.measurement_type_pool[x.measurement_type_id],
                                      d.week_pool[x.week_id])
  /\ (x.new_value = NULL) <=> (e.new_value = NULL)
  /\ x.new_value # NULL => e.new_value = Some(int(x.new_value[1]))

\* C25: an update_point that goes through emits exactly one point diff for
\* each raw diff that qualifies, and nothing for any other raw diff.
C25_OnePointDiffPerQualifyingRawDiff ==
  [][(last'.op = "update_point" /\ last'.outcome = "ok") =>
       LET emitted == db'.point_diffs \ db.point_diffs
           qualifying == { x \in db.diffs : Qualifies(db, x) }
       IN /\ db.point_diffs \subseteq db'.point_diffs
          /\ \A x \in qualifying :
               Cardinality({ e \in emitted : ProjectsTo(db, x, e) }) = 1
          /\ \A e \in emitted :
               Cardinality({ x \in qualifying : ProjectsTo(db, x, e) }) = 1
          /\ Cardinality(emitted) = Cardinality(qualifying)
    ]_vars

\* C25 witness: update_point went through on a store whose raw diffs hold a
\* season value, a season tombstone, an empty season value and a diff of a
\* column that is no season; the point diffs hold a value and a tombstone.
C25_Witness ==
  /\ last.op = "update_point" /\ last.outcome = "ok"
  /\ \E x \in db.diffs : x.new_value = Some("") /\ db.measurement_type_pool[x.measurement_type_id] = "2012-13"
  /\ \E x \in db.diffs : db.measurement_type_pool[x.measurement_type_id] = "note"
  /\ \E e \in db.point_diffs : e.new_value = NULL
  /\ \E e \in db.point_diffs : e.new_value # NULL
  /\ Cardinality(db.point_diffs) < Cardinality(db.diffs)

\* C26: referential integrity in every committed state: the version of
\* every raw diff is in the raw version list and its three ids are in their
\* pools, the version of every point diff is in the point version list, and
\* the point version list is a subset of the raw version list.
C26_ReferentialIntegrity ==
  /\ \A r \in db.diffs :
       /\ RowVersion(r) \in db.version_list
       /\ r.measurement_type_id \in DOMAIN db.measurement_type_pool
       /\ r.location_id \in DOMAIN db.location_pool
       /\ r.week_id \in DOMAIN db.week_pool
  /\ \A e \in db.point_diffs : RowVersion(e) \in db.point_version_list
  /\ db.point_version_list \subseteq db.version_list

\* C26 witness: one version is recorded and projected, with a point diff;
\* the last record_long_raw call failed, and a second version with raw diffs
\* is committed and not yet projected.
C26_Witness ==
  /\ last.op = "record_long_raw" /\ last.outcome = "error"
  /\ Cardinality(db.point_version_list) = 1
  /\ db.point_diffs # {}
  /\ \E v \in db.version_list \ db.point_version_list :
       /\ v \in DOMAIN recorded
       /\ \E r \in db.diffs : RowVersion(r) = v

\* The diff entries of the cell of r at versions before that of r.
EarlierEntries(diffs, r) ==
  { e \in diffs : SameCell(e, r) /\ VersionLT(RowVersion(e), RowVersion(r)) }

\* C27: a tombstone always removes something: the earliest diff entry of
\* every cell is a value entry, and the entry just before a tombstone, in
\* version order and for the same cell, is a value entry.
C27_TombstoneRemovesValue ==
  \A r \in db.diffs :
    r.new_value = NULL =>
      /\ EarlierEntries(db.diffs, r) # {}
      /\ \A e \in EarlierEntries(db.diffs, r) :
           (\A o \in EarlierEntries(db.diffs, r) : VersionLE(RowVersion(o), RowVersion(e)))
             => e.new_value # NULL

\* C27 witness: after an insertion below a recorded version, a cell has a
\* value, a tombstone, and a value again, and another cell has a tombstone.
C27_Witness ==
  /\ LastIngestedOk
  /\ After(db.version_list, last.version) # {}
  /\ \E a, b, c \in db.diffs :
       /\ SameCell(a, b) /\ SameCell(b, c)
       /\ VersionLT(RowVersion(a), RowVersion(b))
       /\ VersionLT(RowVersion(b), RowVersion(c))
       /\ a.new_value # NULL /\ b.new_value = NULL /\ c.new_value # NULL
       /\ RowVersion(b) = last.version
  /\ \E t \in db.diffs : t.new_value = NULL /\ RowVersion(t) # last.version

\* The smaller of two numbers.
Min(a, b) == IF a < b THEN a ELSE b

\* C28: once the stream of APrinter.__call__ is consumed to its end, result
\* is -1 if the row generator raised, else -2 if it produced no row, else 2
\* if it produced more than _max_results rows, else 1; count is the number
\* of rows formatted, the smaller of the rows produced and _max_results.
C28_ResultAndCountFollowRows ==
  /\ printer.pc # "none" =>
       /\ printer.count <= printer.max_results
       /\ printer.count = Cardinality({ i \in DOMAIN printer.chunks :
                                          printer.chunks[i].hook = "_format_row" })
  /\ printer.pc = "done" =>
       /\ printer.result = IF printer.raises THEN -1
                           ELSE IF printer.rows = 0 THEN -2
                           ELSE IF printer.rows > printer.max_results THEN 2
                           ELSE 1
       /\ printer.count = Min(printer.rows, printer.max_results)

\* C28 witness: a stream is at its end whose generator produced more rows
\* than _max_results, at least one of them formatted, and then raised.
C28_Witness ==
  /\ printer.pc = "done"
  /\ printer.raises
  /\ printer.rows > printer.max_results
  /\ printer.count > 0

\* C29: in every stream of APrinter.__call__ the _begin hook runs exactly
\* once and the _end hook runs exactly once; the _begin chunk is the first
\* chunk and comes before every row chunk and every error chunk; the _end
\* chunk is the last chunk.
C29_BeginFirstEndLast ==
  printer.pc # "none" =>
    /\ printer.begins <= 1 /\ printer.ends <= 1
    /\ \A i \in DOMAIN printer.chunks :
         /\ printer.chunks[i].hook = "_begin" <=> i = 1
         /\ printer.chunks[i].hook = "_end" => i = Len(printer.chunks)
    /\ printer.pc = "done" =>
         /\ printer.begins = 1 /\ printer.ends = 1
         /\ printer.chunks[Len(printer.chunks)].hook = "_end"

\* The part of C29 that does not depend on where the error chunk stands:
\* each hook runs exactly once, the _begin chunk comes before every row
\* chunk, and the _end chunk is the last chunk.
C29_HooksRunOnce ==
  printer.pc # "none" =>
    /\ printer.begins <= 1 /\ printer.ends <= 1
    /\ \A i \in DOMAIN printer.chunks :
         /\ printer.chunks[i].hook = "_format_row" =>
              \E j \in 1 .. (i - 1) : printer.chunks[j].hook = "_begin"
         /\ printer.chunks[i].hook = "_end" => i = Len(printer.chunks)
    /\ printer.pc = "done" =>
         /\ printer.begins = 1 /\ printer.ends = 1
         /\ printer.chunks[Len(printer.chunks)].hook = "_end"

\* The texts of the chunks of a stream, one after the other.
RECURSIVE StreamText(_)
StreamText(chunks) ==
  IF chunks = <<>> THEN <<>>
  ELSE chunks[1].text \o StreamText(Tail(chunks))

\* The tokens of a text between its first "[" and the "]" that follows, or
\* the end of the text; the empty sequence when the text has no "[".
ArrayContent(text) ==
  LET opens == { i \in DOMAIN text : text[i] = "[" }
  IN IF opens = {} THEN <<>>
     ELSE LET open == CHOOSE i \in opens : \A j \in opens : i <= j
              closes == { i \in DOMAIN text : i > open /\ text[i] = "]" }
              close == IF closes = {} THEN Len(text) + 1
                       ELSE CHOOSE i \in closes : \A j \in closes : i <= j
          IN SubSeq(text, open + 1, close - 1)

\* An array content in which exactly one comma stands between every two
\* consecutive elements and none before the first or after the last.
WellSeparated(content) ==
  /\ \A i \in DOMAIN content :
       IF i % 2 = 1 THEN content[i] \in {"message", "row"} ELSE content[i] = ","
  /\ Len(content) = 0 \/ Len(content) % 2 = 1

\* C30: the array written by ClassicPrinter and by JSONPrinter is well
\* separated for every combination of show_hard_api_key_warning(),
\* requests_left(), get_multiples_count() and compatibility mode: one comma
\* between every two consecutive elements, the warning message written by
\* _begin being an element, and no comma before the first element.
C30_ArrayWellSeparated ==
  (printer.pc = "done" /\ ~ printer.raises) =>
    WellSeparated(ArrayContent(StreamText(printer.chunks)))

\* The same for the streams of a request that gets no hard API key warning,
\* or gets it with no request left.
C30_WellSeparatedWithoutWarningElement ==
  (/\ printer.pc = "done" /\ ~ printer.raises
   /\ ~ printer.show_hard_api_key_warning \/ printer.requests_left = 0) =>
    WellSeparated(ArrayContent(StreamText(printer.chunks)))

\* C31: two CSVPrinter instances streaming concurrently do not interfere:
\* every chunk returned by an instance's _format_row holds exactly the
\* header and row text that instance wrote in that call, nothing written by
\* the other instance, and nothing written is lost.
C31_ChunkIsOwnText ==
  csv.pc = "streaming" =>
    \A i \in CSVInstances :
      \A k \in 1..Len(csv.inst[i].chunks) :
        csv.inst[i].chunks[k].text = csv.inst[i].chunks[k].written

\* The same holds when no thread is switched inside a turn of the loop.
C31_ChunkIsOwnTextInWholeTurns ==
  \A i \in CSVInstances :
    /\ \A k \in 1..Len(csv.inst[i].chunks) :
         csv.inst[i].chunks[k].text = csv.inst[i].chunks[k].written
    /\ csv.inst[i].pc = "loop" => Len(csv.inst[i].chunks) = csv.inst[i].count

\* C32: _require_admin lets a request through if and only if admin is
\* enabled (ADMIN_PASSWORD is not empty) and the token the request resolves
\* to equals ADMIN_PASSWORD; in every other case _index and _detail raise
\* Unauthorized before any user is listed, inserted, updated, deleted or
\* given roles.
C32_ThroughOnlyWithEnabledAdminPassword ==
  (admin.pc = "serving" /\ admin.last.handler # "none") =>
    /\ admin.last.outcome # "Unauthorized"
         <=> (enable_admin(admin) /\ admin.last.token = Some(admin.ADMIN_PASSWORD))
    /\ admin.last.outcome = "Unauthorized" => admin.last.touched = <<>>

\* The same with the test the code makes: a request gets through if and
\* only if its token is a string equal to ADMIN_PASSWORD, which with admin
\* enabled is the statement of C32; a request that does not get through
\* touches no user.
C32_ThroughOnlyWithEqualToken ==
  (admin.pc = "serving" /\ admin.last.handler # "none") =>
    /\ admin.last.outcome # "Unauthorized"
         <=> admin.last.token = Some(admin.ADMIN_PASSWORD)
    /\ enable_admin(admin) =>
         (admin.last.outcome # "Unauthorized"
            <=> (enable_admin(admin) /\ admin.last.token = Some(admin.ADMIN_PASSWORD)))
    /\ admin.last.outcome = "Unauthorized" => admin.last.touched = <<>>

\* A request that raises Unauthorized leaves the users as they were.
C32_UnauthorizedChangesNoUser ==
  [][admin'.last.outcome = "Unauthorized" => admin'.users = admin.users]_vars

\* The name consists of 3 to 64 characters of [a-zA-Z0-9_].
ConsistsOfColNameCharacters(s) == IsWord(s, MinColNameLen, MaxColNameLen)

\* C33: add_column either rejects or appends: when the name used for the
\* MySQL column (sql_name, or col_name when sql_name is not given) does not
\* consist of 3 to 64 characters of [a-zA-Z0-9_] it raises and leaves the
\* dataset's ORDERED_CSV_COLUMNS unchanged; otherwise it appends exactly one
\* entry at the end and leaves every entry there was, and their order,
\* unchanged.
C33_RejectsOrAppends ==
  [][(chs'.last.ds_name \in DatasetNames) =>
       LET before == chs.yaml_content[chs'.last.ds_name]
           after == chs'.yaml_content[chs'.last.ds_name]
       IN IF ~ ConsistsOfColNameCharacters(chs'.last.sql_name)
            THEN chs'.last.outcome = "Exception" /\ after = before
            ELSE /\ chs'.last.outcome = "ok"
                 /\ Len(after) = Len(before) + 1
                 /\ SubSeq(after, 1, Len(before)) = before]_vars

\* The same with the names the pattern lets through, which are those of
\* C33 and those with one newline after them.
C33_RejectsOrAppendsByPattern ==
  [][(chs'.last.ds_name \in DatasetNames) =>
       LET before == chs.yaml_content[chs'.last.ds_name]
           after == chs'.yaml_content[chs'.last.ds_name]
           name == chs'.last.sql_name
           let_through ==
             \/ ConsistsOfColNameCharacters(name)
             \/ EndsWithNewline(name) /\ ConsistsOfColNameCharacters(Front(name))
       IN /\ \A ds \in DatasetNames \ {chs'.last.ds_name} :
               chs'.yaml_content[ds] = chs.yaml_content[ds]
          /\ IF ~ let_through
               THEN chs'.last.outcome = "Exception" /\ after = before
               ELSE /\ chs'.last.outcome = "ok"
                    /\ Len(after) = Len(before) + 1
                    /\ SubSeq(after, 1, Len(before)) = before]_vars

====
